---------------------------- MODULE Spec2Model ----------------------------
(***************************************************************************)
(* A model of the auto-recipes ingestion pipeline: the canonicalizer, the  *)
(* embedding index, the matcher, the LLM response normalizer, the          *)
(* ingredient aggregation of map_and_upsert and the url_to_notion          *)
(* orchestrator.                                                           *)
(*                                                                         *)
(* Text is modelled as a sequence of lexemes: a maximal run of word        *)
(* characters ([A-Za-z0-9_]) is one lexeme, every other character is a     *)
(* lexeme of its own.  Scores are cosine similarities times 100.           *)
(***************************************************************************)
EXTENDS Integers, Sequences, FiniteSets, TLC

VARIABLES
    \* canonicalizer harness
    cPc, cIn, cOut, cOut2, cExt,
    \* EmbedIndex object
    names, vecs, lastOp, prevNames, prevVecs,
    \* matcher harness
    mPc, mArgs, mResult,
    \* map_and_upsert harness
    mapPc, mapIn, mapOut,
    \* parse_recipe_text and url_to_notion
    pPc, pMode, pHtml, pPrompt, pAttempt, pCalls, pResps, pDraft, pRecipe,
    pSummary, pOutcome,
    \* the sqlite database of main.py and the calls made to upsert_parsed_recipe
    recipes, changes_log, recipe_ingredients, ingredients, dbCalls,
    \* the two index artifacts at one base path, the index last saved there,
    \* and a fresh index that load(path) is called on
    fNames, fVecs, fSaved, ldNames, ldVecs, ldOutcome,
    \* the answer of the last nearest call
    qResult,
    \* two pipeline runs sharing the index: position, name, new row, the
    \* matrix read, and what a nearest call observed
    tPc, tName, tNewVec, tRead, tObs,
    \* JSON recovery harness
    jPc, jIn, jOut,
    \* structured-hint extraction: the page given and what each extractor found
    hPc, hIn, hOut,
    \* the last answer of sync_push and of sync_pull
    pushed, pulled

canonVars == <<cPc, cIn, cOut, cOut2, cExt>>
indexVars == <<names, vecs, lastOp, prevNames, prevVecs>>
matchVars == <<mPc, mArgs, mResult>>
mapVars == <<mapPc, mapIn, mapOut>>
parseVars == <<pPc, pMode, pHtml, pPrompt, pAttempt, pCalls, pResps, pDraft, pRecipe,
               pSummary, pOutcome>>
dbVars == <<recipes, changes_log, recipe_ingredients, ingredients, dbCalls>>
\* the state outside the ingestion pipeline
storeVars == <<fNames, fVecs, fSaved, ldNames, ldVecs, ldOutcome>>
queryVars == <<qResult>>
concVars == <<tPc, tName, tNewVec, tRead, tObs>>
jsonVars == <<jPc, jIn, jOut>>
hintVars == <<hPc, hIn, hOut>>
syncVars == <<pushed, pulled>>
extVars == <<dbVars, storeVars, queryVars, concVars, jsonVars, hintVars, syncVars>>
vars == <<canonVars, indexVars, matchVars, mapVars, parseVars, extVars>>

(***************************************************************************)
(* Bounds of the model.                                                    *)
(***************************************************************************)
MaxTokens == 4
MaxNames == 3
MaxBuild == 2
MaxMentions == 2

(***************************************************************************)
(* Generic helpers.                                                        *)
(***************************************************************************)
None == "NoneType"

\* an optional number: absent (None), or Some(n)
Absent == <<>>
Some(n) == <<n>>
Val(o) == o[1]

\* an optional text that is None
NoText == <<None>>

SeqsUpTo(S, n) == UNION {[1..k -> S] : k \in 0..n}

RECURSIVE MapSeq(_, _)
MapSeq(F(_), s) == IF s = <<>> THEN <<>> ELSE <<F(Head(s))>> \o MapSeq(F, Tail(s))

(***************************************************************************)
(* src/dedup/canonicalize.py                                               *)
(***************************************************************************)
ALIAS_KEYS == << <<"spring", " ", "onions">>,
                 <<"scallions">>,
                 <<"roma", " ", "tomatoes">>,
                 <<"extra", " ", "virgin", " ", "olive", " ", "oil">> >>

ALIAS_VALUES == << <<"green", " ", "onion">>,
                   <<"green", " ", "onion">>,
                   <<"tomato">>,
                   <<"olive", " ", "oil">> >>

DESCRIPTORS == << <<"fresh">>, <<"chopped">>, <<"minced">>, <<"diced">>,
                  <<"organic">>, <<"large">>, <<"small">>,
                  <<"to", " ", "taste">>,
                  <<"finely">>, <<"sliced">>, <<"grated">>, <<"peeled">>,
                  <<"crushed">>, <<"ground">>, <<"halved">>, <<"roughly">>,
                  <<"thinly">> >>

\* the character class [\.,;:()\[\]\\/\"] of the punctuation re.sub
PunctChars == {".", ",", ";", ":", "(", ")", "[", "]", "\\", "/", "\""}

\* the characters matched by \s
WhiteSpace == {" ", "\t"}

\* characters that are neither word characters nor whitespace nor stripped
OtherChars == {"-", "!", "'"}

IsWord(t) == t \notin (PunctChars \cup WhiteSpace \cup OtherChars)

\* str.lower() on one lexeme
LowerTok(t) ==
    CASE t = "Fresh" -> "fresh"
      [] t = "Roma" -> "roma"
      [] t = "Extra" -> "extra"
      [] t = "To" -> "to"
      [] t = "Salt" -> "salt"
      [] t = "Pepper" -> "pepper"
      [] OTHER -> t

Lower(s) == MapSeq(LowerTok, s)

\* s.replace("-", " ")
HyphenTok(t) == IF t = "-" THEN " " ELSE t
ReplaceHyphens(s) == MapSeq(HyphenTok, s)

\* re.sub(r"[\.,;:()\[\]\\/\"]", " ", s)
PunctTok(t) == IF t \in PunctChars THEN " " ELSE t
StripPunct(s) == MapSeq(PunctTok, s)

\* does the pattern \b d \b match s at lexeme position i
MatchesAt(s, d, i) ==
    /\ i + Len(d) - 1 <= Len(s)
    /\ \A k \in 1..Len(d) : s[i + k - 1] = d[k]
    /\ (i = 1 \/ ~IsWord(s[i - 1]))
    /\ (i + Len(d) > Len(s) \/ ~IsWord(s[i + Len(d)]))

\* re.sub(r"\b" + re.escape(d) + r"\b", "", s): leftmost non-overlapping matches
RECURSIVE RemoveFrom(_, _, _)
RemoveFrom(s, d, i) ==
    IF i > Len(s) THEN <<>>
    ELSE IF MatchesAt(s, d, i) THEN RemoveFrom(s, d, i + Len(d))
    ELSE <<s[i]>> \o RemoveFrom(s, d, i + 1)

RemoveDescriptor(s, d) == RemoveFrom(s, d, 1)

\* for d in DESCRIPTORS: s = re.sub(...)   (in list order)
RECURSIVE RemoveDescriptorsFrom(_, _)
RemoveDescriptorsFrom(s, k) ==
    IF k > Len(DESCRIPTORS) THEN s
    ELSE RemoveDescriptorsFrom(RemoveDescriptor(s, DESCRIPTORS[k]), k + 1)

RemoveDescriptors(s) == RemoveDescriptorsFrom(s, 1)

\* re.sub(r"\s+", " ", s)
RECURSIVE CollapseWhitespace(_)
CollapseWhitespace(s) ==
    IF s = <<>> THEN <<>>
    ELSE IF Head(s) \in WhiteSpace
         THEN IF Len(s) >= 2 /\ s[2] \in WhiteSpace
              THEN CollapseWhitespace(Tail(s))
              ELSE <<" ">> \o CollapseWhitespace(Tail(s))
         ELSE <<Head(s)>> \o CollapseWhitespace(Tail(s))

\* str.strip()
RECURSIVE LStrip(_)
LStrip(s) == IF s # <<>> /\ Head(s) \in WhiteSpace THEN LStrip(Tail(s)) ELSE s

RECURSIVE RStrip(_)
RStrip(s) ==
    IF s # <<>> /\ s[Len(s)] \in WhiteSpace THEN RStrip(SubSeq(s, 1, Len(s) - 1)) ELSE s

Strip(s) == RStrip(LStrip(s))

\* if s in ALIAS_MAP: s = ALIAS_MAP[s]
AliasLookup(s) ==
    IF \E k \in 1..Len(ALIAS_KEYS) : ALIAS_KEYS[k] = s
    THEN ALIAS_VALUES[CHOOSE k \in 1..Len(ALIAS_KEYS) : ALIAS_KEYS[k] = s]
    ELSE s

\* a plausible slip: the alias table is consulted before the descriptors are removed
canonicalize_alias_first(name) ==
    IF name = <<>> THEN <<>>
    ELSE Strip(CollapseWhitespace(RemoveDescriptors(
             AliasLookup(Strip(CollapseWhitespace(
                 StripPunct(ReplaceHyphens(Lower(name)))))))))

\* the steps of canonicalize, in order
canonicalize_steps(name) ==
    IF name = <<>> THEN <<>>
    ELSE AliasLookup(Strip(CollapseWhitespace(RemoveDescriptors(
             StripPunct(ReplaceHyphens(Lower(name)))))))

\* the raw names the matcher and the aggregation harnesses use; their canonical
\* forms are tabulated once (canonicalize is pure; @@ makes the table explicit)
CachedNames == { <<"Roma", " ", "tomatoes">>, <<"unicorn", " ", "dust">>,
                 <<"tomatoes">>, <<"fresh", " ", "garlic">>, <<"fresh">>,
                 <<"garlic">>, <<"tomato">> }

CanonCache == [s \in CachedNames |-> canonicalize_steps(s)] @@ [s \in {} |-> <<>>]

canonicalize(name) ==
    IF name \in CachedNames THEN CanonCache[name] ELSE canonicalize_steps(name)

\* " ".join(parts)
RECURSIVE JoinSpace(_)
JoinSpace(parts) ==
    IF parts = <<>> THEN <<>>
    ELSE IF Len(parts) = 1 THEN Head(parts)
    ELSE Head(parts) \o <<" ">> \o JoinSpace(Tail(parts))

\* re.search(r"\b" + re.escape(d) + r"\b", low)
Occurs(low, d) == \E i \in 1..Len(low) : MatchesAt(low, d, i)

\* desc_parts after the loop over DESCRIPTORS from the k-th on
RECURSIVE DescParts(_, _)
DescParts(low, k) ==
    IF k > Len(DESCRIPTORS) THEN <<>>
    ELSE (IF Occurs(low, DESCRIPTORS[k]) THEN <<DESCRIPTORS[k]>> ELSE <<>>)
         \o DescParts(low, k + 1)

\* extract_description_and_name on low = raw.strip().lower(): descriptors are
\* removed before the punctuation, and hyphens are kept
extract_from(low) ==
    [description |-> Strip(JoinSpace(DescParts(low, 1))),
     name |-> AliasLookup(Strip(CollapseWhitespace(StripPunct(RemoveDescriptors(low)))))]

\* extract_description_and_name(raw): (description, canonical_name)
extract_description_and_name(raw) ==
    IF raw = <<>> THEN [description |-> <<>>, name |-> <<>>]
    ELSE extract_from(Lower(Strip(raw)))

(***************************************************************************)
(* Inputs of the canonicalizer harness: every well-formed text of at most  *)
(* MaxTokens lexemes over a small alphabet, and the inputs of              *)
(* tests/test_canonicalize.py.                                             *)
(***************************************************************************)
CanonAlphabet == {"to", "taste", "fresh", "roma", "tomatoes", " ", ","}

\* a run of word characters is one lexeme: no two word lexemes are adjacent
WellFormed(s) == \A i \in 1..(Len(s) - 1) : ~(IsWord(s[i]) /\ IsWord(s[i + 1]))

TestInputs == { <<"Fresh", " ", "chopped", " ", "Roma", " ", "tomatoes">>,
                <<"Extra", " ", "virgin", " ", "olive", " ", "oil">>,
                <<"scallions", ",", " ", "finely", " ", "chopped">>,
                <<"spring", "-", "onions">> }

CanonInputs == {s \in SeqsUpTo(CanonAlphabet, MaxTokens) : WellFormed(s)} \cup TestInputs

IndexIdle ==
    /\ names = <<>>
    /\ vecs = None
    /\ lastOp = <<"init">>
    /\ prevNames = <<>>
    /\ prevVecs = None

MatchIdle ==
    /\ mPc = "idle"
    /\ mArgs = None
    /\ mResult = None

ParseIdle ==
    /\ pPc = "idle"
    /\ pMode = None
    /\ pHtml = <<>>
    /\ pPrompt = <<>>
    /\ pAttempt = 0
    /\ pCalls = <<>>
    /\ pResps = <<>>
    /\ pDraft = <<>>
    /\ pRecipe = <<>>
    /\ pSummary = <<>>
    /\ pOutcome = <<>>

\* ensure_db on a new file: the tables exist and are empty
DbIdle ==
    /\ recipes = <<>>
    /\ changes_log = <<>>
    /\ recipe_ingredients = <<>>
    /\ ingredients = <<>>
    /\ dbCalls = <<>>

\* no artifact written, no load attempted
StoreIdle ==
    /\ fNames = <<>>
    /\ fVecs = <<>>
    /\ fSaved = <<>>
    /\ ldNames = <<>>
    /\ ldVecs = None
    /\ ldOutcome = "none"

QueryIdle == qResult = <<>>

Runs == {"run1", "run2"}

ConcIdle ==
    /\ tPc = [r \in Runs |-> "idle"]
    /\ tName = [r \in Runs |-> <<>>]
    /\ tNewVec = [r \in Runs |-> <<>>]
    /\ tRead = [r \in Runs |-> <<>>]
    /\ tObs = <<>>

JsonIdle ==
    /\ jPc = "idle"
    /\ jIn = <<>>
    /\ jOut = <<>>

\* the state outside the ingestion pipeline, untouched
HintIdle ==
    /\ hPc = "idle"
    /\ hIn = <<>>
    /\ hOut = <<>>

SyncIdle ==
    /\ pushed = <<>>
    /\ pulled = <<>>

ExtIdle ==
    /\ DbIdle
    /\ StoreIdle
    /\ QueryIdle
    /\ ConcIdle
    /\ JsonIdle
    /\ HintIdle
    /\ SyncIdle

MapIdle ==
    /\ mapPc = "idle"
    /\ mapIn = None
    /\ mapOut = None

CanonIdle ==
    /\ cPc = "idle"
    /\ cIn = <<>>
    /\ cOut = <<>>
    /\ cOut2 = <<>>
    /\ cExt = <<>>

InitCanon ==
    /\ cPc = "start"
    /\ cIn \in CanonInputs
    /\ cOut = <<>>
    /\ cOut2 = <<>>
    /\ cExt = <<>>
    /\ IndexIdle
    /\ MatchIdle
    /\ MapIdle
    /\ ParseIdle
    /\ ExtIdle

\* s1 = canonicalize(raw)
CanonOnce ==
    /\ cPc = "start"
    /\ cOut' = canonicalize(cIn)
    /\ cPc' = "once"
    /\ UNCHANGED <<cIn, cOut2, cExt, indexVars, matchVars, mapVars, parseVars, extVars>>

\* s2 = canonicalize(s1)
CanonTwice ==
    /\ cPc = "once"
    /\ cOut2' = canonicalize(cOut)
    /\ cPc' = "twice"
    /\ UNCHANGED <<cIn, cOut, cExt, indexVars, matchVars, mapVars, parseVars, extVars>>

\* description, name = extract_description_and_name(raw)
CanonExtract ==
    /\ cPc = "start"
    /\ cExt' = <<extract_description_and_name(cIn)>>
    /\ cPc' = "extracted"
    /\ UNCHANGED <<cIn, cOut, cOut2, indexVars, matchVars, mapVars, parseVars, extVars>>

NextCanon == CanonOnce \/ CanonTwice \/ CanonExtract

SpecCanon == InitCanon /\ [][NextCanon]_vars


(***************************************************************************)
(* Claims about the canonicalizer (SpecCanon).                             *)
(***************************************************************************)

\* C8: canonicalize is idempotent: canonicalize(canonicalize(s)) = canonicalize(s)
\* for every input s, also when removing a descriptor or collapsing whitespace
\* brings the words of the descriptor "to taste" together.
C8_Idempotent == cPc = "twice" => cOut2 = cOut

\* C23: the second component of extract_description_and_name(raw) is the
\* canonical name canonicalize(raw) returns, for every raw string, hyphenated
\* ones included, and the first component is the space-joined descriptor words
\* that occur as whole words in raw.
C23_SameCanonicalName ==
    cPc = "extracted" =>
        /\ cExt[1].name = canonicalize(cIn)
        /\ cExt[1].description =
              JoinSpace(SelectSeq(DESCRIPTORS, LAMBDA d : Occurs(Lower(cIn), d)))

\* C9: the steps run in the order lowercase, hyphen-to-space, punctuation strip,
\* descriptor removal, whitespace collapse, trim, alias lookup: an input whose
\* descriptor-stripped form is an alias key yields the alias value, the three
\* inputs of the test yield "tomato", "olive oil" and "green onion", and the
\* empty input yields the empty string.
C9_StepsAndAlias ==
    cPc \in {"once", "twice"} =>
        /\ (cIn = <<"Fresh", " ", "chopped", " ", "Roma", " ", "tomatoes">>
                => cOut = <<"tomato">>)
        /\ (cIn = <<"Extra", " ", "virgin", " ", "olive", " ", "oil">>
                => cOut = <<"olive", " ", "oil">>)
        /\ (cIn = <<"scallions", ",", " ", "finely", " ", "chopped">>
                => cOut = <<"green", " ", "onion">>)
        /\ (cIn = <<>> => cOut = <<>>)
        /\ LET stripped == Strip(CollapseWhitespace(RemoveDescriptors(
                               StripPunct(ReplaceHyphens(Lower(cIn))))))
           IN \A k \in 1..Len(ALIAS_KEYS) :
                  (cIn # <<>> /\ stripped = ALIAS_KEYS[k]) => cOut = ALIAS_VALUES[k]

\* C9 witness: the first test input has been canonicalized to "tomato"
C9_Witness ==
    /\ cPc = "once"
    /\ cIn = <<"Fresh", " ", "chopped", " ", "Roma", " ", "tomatoes">>
    /\ cOut = <<"tomato">>


(***************************************************************************)
(* src/dedup/embed_index.py                                                *)
(*                                                                         *)
(* A vector is a direction (a multiple of 45 degrees) and a length; the    *)
(* dot product of two vectors is the product of their lengths and the      *)
(* cosine of the angle between them (times 100).                           *)
(***************************************************************************)
Cos100 == <<100, 71, 0, -71, -100, -71, 0, 71>>

Dot(u, v) == u.len * v.len * Cos100[((u.dir - v.dir) % 8) + 1]

\* SentenceTransformer.encode of one text: the external embedding model
Encode(text) ==
    CASE text = <<>> -> [dir |-> 0, len |-> 0]
      [] text = <<"tomato">> -> [dir |-> 0, len |-> 2]
      [] text = <<"tomatoes">> -> [dir |-> 1, len |-> 2]
      [] text = <<"garlic">> -> [dir |-> 2, len |-> 3]
      [] text = <<"unicorn", " ", "dust">> -> [dir |-> 3, len |-> 2]
      [] text = <<"olive", " ", "oil">> -> [dir |-> 4, len |-> 2]
      [] text = <<"green", " ", "onion">> -> [dir |-> 6, len |-> 2]
      [] OTHER -> [dir |-> 5, len |-> 2]

\* raw / norm, with norms[norms == 0] = 1.0
Normalize(v) == IF v.len = 0 THEN v ELSE [v EXCEPT !.len = 1]

EncodeOne(text) == Normalize(Encode(text))

\* _encode_and_normalize(texts): one normalized row per text
encode_and_normalize(texts) == MapSeq(EncodeOne, texts)

\* number of rows of the vector matrix, None holding no rows
Rows(v) == IF v = None THEN 0 ELSE Len(v)

\* a plausible slip: the new row replaces the matrix instead of being stacked
add_name_vecs_replace(v, new_vec) == new_vec

\* self.vecs after add_name: new_vec if there is no matrix yet, else np.vstack
add_name_vecs(v, new_vec) ==
    IF v = None \/ Len(v) = 0 THEN new_vec ELSE v \o new_vec

\* a plausible slip: the last maximum is taken instead of the first
ArgMax_last(scores) ==
    CHOOSE i \in 1..Len(scores) :
        /\ \A j \in 1..Len(scores) : scores[j] <= scores[i]
        /\ \A j \in (i + 1)..Len(scores) : scores[j] < scores[i]

\* index of the first maximum (np.argmax)
ArgMax(scores) ==
    CHOOSE i \in 1..Len(scores) :
        /\ \A j \in 1..Len(scores) : scores[j] <= scores[i]
        /\ \A j \in 1..(i - 1) : scores[j] < scores[i]

\* EmbedIndex.nearest(query): (name, score)
nearest(ns, v, query) ==
    IF ns = <<>> \/ v = None \/ Len(v) = 0 THEN [name |-> <<>>, score |-> 0]
    ELSE LET qvec == Encode(query) IN
         IF qvec.len = 0 THEN [name |-> <<>>, score |-> 0]
         ELSE LET q == [qvec EXCEPT !.len = 1]
                  scores == [i \in 1..Len(v) |-> Dot(v[i], q)]
                  idx == ArgMax(scores)
              IN [name |-> ns[idx], score |-> scores[idx]]

\* names stored by the harness, "" among them
IndexNames == {<<>>, <<"tomato">>, <<"garlic">>, <<"olive", " ", "oil">>}

BuildArgs == SeqsUpTo(IndexNames, MaxBuild)

\* a plausible slip: build returns on an empty list before replacing the names
Build_return_on_empty(ns) ==
    /\ names' = IF ns = <<>> THEN names ELSE ns
    /\ vecs' = IF ns = <<>> THEN vecs ELSE encode_and_normalize(ns)
    /\ lastOp' = <<"build", ns>>
    /\ prevNames' = names
    /\ prevVecs' = vecs

\* EmbedIndex.build(ns)
Build(ns) ==
    /\ names' = ns
    /\ vecs' = IF ns = <<>> THEN None ELSE encode_and_normalize(ns)
    /\ lastOp' = <<"build", ns>>
    /\ prevNames' = names
    /\ prevVecs' = vecs

\* EmbedIndex.add_name(name)
AddName(name) ==
    /\ IF name = <<>>
       THEN UNCHANGED <<names, vecs>>
       ELSE /\ vecs' = add_name_vecs(vecs, encode_and_normalize(<<name>>))
            /\ names' = Append(names, name)
    /\ lastOp' = <<"add_name", name>>
    /\ prevNames' = names
    /\ prevVecs' = vecs

InitIndex ==
    /\ IndexIdle
    /\ CanonIdle
    /\ MatchIdle
    /\ MapIdle
    /\ ParseIdle
    /\ ExtIdle

IndexBuild ==
    /\ \E ns \in BuildArgs : Build(ns)
    /\ qResult' = <<>>
    /\ UNCHANGED <<canonVars, matchVars, mapVars, parseVars, dbVars, storeVars,
                   concVars, jsonVars, hintVars, syncVars>>

IndexAddName ==
    /\ Len(names) < MaxNames
    /\ \E n \in IndexNames : AddName(n)
    /\ qResult' = <<>>
    /\ UNCHANGED <<canonVars, matchVars, mapVars, parseVars, dbVars, storeVars,
                   concVars, jsonVars, hintVars, syncVars>>

\* texts given to nearest, "" among them
Queries == { <<>>, <<"tomato">>, <<"tomatoes">>, <<"garlic">> }

\* EmbedIndex.nearest(query): qResult holds the query and the returned pair
\* until the next build or add_name; the index is left as it is
IndexNearest ==
    /\ \E q \in Queries :
          qResult' = <<[query |-> q, result |-> nearest(names, vecs, q)]>>
    /\ UNCHANGED indexVars
    /\ UNCHANGED <<canonVars, matchVars, mapVars, parseVars, dbVars, storeVars,
                   concVars, jsonVars, hintVars, syncVars>>

NextIndex == IndexBuild \/ IndexAddName \/ IndexNearest

SpecIndex == InitIndex /\ [][NextIndex]_vars

BuildRaises(ns) ==
    /\ ns # <<>>
    /\ names' = ns
    /\ vecs' = vecs
    /\ lastOp' = <<"build_raised", ns>>
    /\ prevNames' = names
    /\ prevVecs' = vecs

IndexBuildRaises ==
    /\ \E ns \in BuildArgs : BuildRaises(ns)
    /\ qResult' = <<>>
    /\ UNCHANGED <<canonVars, matchVars, mapVars, parseVars, dbVars, storeVars,
                   concVars, jsonVars, hintVars, syncVars>>

\* add_name while the matrix has fewer than MaxNames rows
IndexAddNameCapped == Rows(vecs) < MaxNames /\ IndexAddName

\* the index when the embedding model may fail
NextIndexFaulty == IndexBuild \/ IndexAddNameCapped \/ IndexBuildRaises

SpecIndexFaulty == InitIndex /\ [][NextIndexFaulty]_vars

\* C22: build replaces names and vectors atomically: when computing the
\* embeddings fails, the index is left with its previous names and vectors, or
\* at least with as many names as rows, never with the new names beside the
\* old vectors.
C22_BuildAtomic ==
    lastOp[1] = "build_raised" =>
        /\ \/ names = prevNames /\ vecs = prevVecs
           \/ Len(names) = Rows(vecs)
        /\ ~(names = lastOp[2] /\ names # prevNames /\ vecs = prevVecs)

\* the pair nearest returns for "no neighbour"
NoNeighbour == [name |-> <<>>, score |-> 0]

\* C19: nearest on an empty index returns ("", 0.0): after build([]) on any
\* index, one that held names before included, the index is empty and
\* nearest(q) returns ("", 0.0) for every query q.
C19_EmptyIndexAnswer ==
    qResult # <<>> =>
        /\ (names = <<>> => qResult[1].result = NoNeighbour)
        /\ (lastOp = <<"build", <<>>>> =>
                /\ names = <<>>
                /\ vecs = None
                /\ qResult[1].result = NoNeighbour)

\* C19 witness: an index that held names was rebuilt with [] and then asked
\* for the neighbour of "tomato"
C19_Witness ==
    /\ qResult # <<>>
    /\ lastOp = <<"build", <<>>>>
    /\ qResult[1].query = <<"tomato">>
    /\ prevNames # <<>>
    /\ names = <<>>
    /\ qResult[1].result = NoNeighbour

\* similarity of stored row i with the normalized embedding of query q
ScoreAt(v, q, i) == Dot(v[i], EncodeOne(q))

\* r is the stored name of the lowest row whose score is the maximum, with
\* that score
IsFirstBest(ns, v, q, r) ==
    \E i \in 1..Len(ns) :
        /\ r.name = ns[i]
        /\ r.score = ScoreAt(v, q, i)
        /\ \A j \in 1..Len(ns) : ScoreAt(v, q, j) <= r.score
        /\ \A j \in 1..(i - 1) : ScoreAt(v, q, j) < r.score

\* C20 as stated: on a non-empty index nearest(query) returns, for every
\* query, a stored name with the maximum score, the lowest row among ties.
C20_AnyQuery ==
    (qResult # <<>> /\ names # <<>>) =>
        IsFirstBest(names, vecs, qResult[1].query, qResult[1].result)

\* C20 amended: on a non-empty index nearest(query) returns ("", 0.0) when the
\* embedding of the query has zero norm, and otherwise a stored name with the
\* maximum score, the lowest row among ties.
C20_NonZeroQuery ==
    (qResult # <<>> /\ names # <<>>) =>
        IF Encode(qResult[1].query).len = 0
        THEN qResult[1].result = NoNeighbour
        ELSE IsFirstBest(names, vecs, qResult[1].query, qResult[1].result)

\* C20 witness: "tomatoes" is as close to row 1 ("tomato") as to row 2
\* ("garlic") and the answer is row 1
C20_Witness ==
    /\ qResult # <<>>
    /\ names = << <<"tomato">>, <<"garlic">> >>
    /\ qResult[1].query = <<"tomatoes">>
    /\ ScoreAt(vecs, <<"tomatoes">>, 1) = ScoreAt(vecs, <<"tomatoes">>, 2)
    /\ qResult[1].result = [name |-> <<"tomato">>, score |-> 71]

(***************************************************************************)
(* src/dedup/match.py                                                      *)
(***************************************************************************)
\* a plausible slip: the nearest neighbour is looked up before the exact match
match_or_create_lookup_first(name, existing_names, ns, v, threshold) ==
    LET can == canonicalize(name)
        r == nearest(ns, v, can)
    IN IF can \in existing_names
       THEN [status |-> "existing", name |-> can, score |-> 100,
             queries |-> <<can>>]
       ELSE IF r.name # <<>> /\ r.score >= threshold
       THEN [status |-> "existing", name |-> r.name, score |-> r.score,
             queries |-> <<can>>]
       ELSE [status |-> "new", name |-> can, score |-> r.score,
             queries |-> <<can>>]

\* a plausible slip: the threshold comparison is strict
match_or_create_strict(name, existing_names, ns, v, threshold) ==
    LET can == canonicalize(name)
        r == nearest(ns, v, can)
    IN IF can \in existing_names
       THEN [status |-> "existing", name |-> can, score |-> 100,
             queries |-> <<>>]
       ELSE IF r.name # <<>> /\ r.score > threshold
       THEN [status |-> "existing", name |-> r.name, score |-> r.score,
             queries |-> <<can>>]
       ELSE [status |-> "new", name |-> can, score |-> r.score,
             queries |-> <<can>>]

\* a plausible slip: the index's answer is accepted without a name
match_or_create_no_name_check(name, existing_names, ns, v, threshold) ==
    LET can == canonicalize(name)
        r == nearest(ns, v, can)
    IN IF can \in existing_names
       THEN [status |-> "existing", name |-> can, score |-> 100,
             queries |-> <<>>]
       ELSE IF r.score >= threshold
       THEN [status |-> "existing", name |-> r.name, score |-> r.score,
             queries |-> <<can>>]
       ELSE [status |-> "new", name |-> can, score |-> r.score,
             queries |-> <<can>>]

\* match_or_create(name, existing_names, index, threshold) on the index
\* (ns, v): the returned (status, name, score) and the queries made to
\* index.nearest
match_or_create(name, existing_names, ns, v, threshold) ==
    LET can == canonicalize(name)
        r == nearest(ns, v, can)
    IN IF can \in existing_names
       THEN [status |-> "existing", name |-> can, score |-> 100,
             queries |-> <<>>]
       ELSE IF r.name # <<>> /\ r.score >= threshold
       THEN [status |-> "existing", name |-> r.name, score |-> r.score,
             queries |-> <<can>>]
       ELSE [status |-> "new", name |-> can, score |-> r.score,
             queries |-> <<can>>]

\* raw names given to the matcher
MatchInputs == { <<"Roma", " ", "tomatoes">>, <<"unicorn", " ", "dust">>,
                 <<"tomatoes">>, <<"fresh", " ", "garlic">>, <<"fresh">>, <<>> }

ExistingUniverse == { <<"tomato">>, <<"olive", " ", "oil">>, <<"garlic">>, <<>> }

\* similarity cutoffs (times 100); 92 is the default
DefaultThreshold == 92
Thresholds == {-100, 0, 50, 71, DefaultThreshold, 100}

InitMatch ==
    /\ IndexIdle
    /\ CanonIdle
    /\ MatchIdle
    /\ MapIdle
    /\ ParseIdle
    /\ ExtIdle

\* the index is built from the known names before matching (url_to_notion)
MatchBuild ==
    /\ mPc = "idle"
    /\ lastOp = <<"init">>
    /\ \E ns \in BuildArgs : Build(ns)
    /\ UNCHANGED <<canonVars, matchVars, mapVars, parseVars, extVars>>

MatchOrCreate ==
    /\ mPc = "idle"
    /\ \E name \in MatchInputs, existing \in SUBSET ExistingUniverse,
          threshold \in Thresholds :
         /\ mArgs' = [name |-> name, existing |-> existing, threshold |-> threshold]
         /\ mResult' = match_or_create(name, existing, names, vecs, threshold)
    /\ mPc' = "done"
    /\ UNCHANGED <<canonVars, indexVars, mapVars, parseVars, extVars>>

NextMatch == MatchBuild \/ MatchOrCreate

SpecMatch == InitMatch /\ [][NextMatch]_vars

\* C5: when canonicalize(name) is a member of existing_names, match_or_create
\* returns ("existing", canonicalize(name), 1.0) and never calls index.nearest.
C5_ExactMatchShortCircuits ==
    (mPc = "done" /\ canonicalize(mArgs.name) \in mArgs.existing) =>
        /\ mResult.status = "existing"
        /\ mResult.name = canonicalize(mArgs.name)
        /\ mResult.score = 100
        /\ mResult.queries = <<>>

\* C5 witness: "Roma tomatoes" matched against a set holding "tomato", with an
\* index that holds "tomato" too
C5_Witness ==
    /\ mPc = "done"
    /\ mArgs.name = <<"Roma", " ", "tomatoes">>
    /\ <<"tomato">> \in mArgs.existing
    /\ mArgs.threshold = 50
    /\ names = << <<"tomato">> >>
    /\ mResult.status = "existing"

\* the (name, score) the index reports for the canonical form of the input
MatchReported == nearest(names, vecs, canonicalize(mArgs.name))

\* C6: when canonicalize(name) is not in existing_names, nearest is queried
\* once on the canonical form; the result is ("existing", index's name, score)
\* if a name came back with score >= threshold, and otherwise
\* ("new", canonicalize(name), score) with the score the index returned
\* (0.0 for an empty index).
C6_NearestDecides ==
    (mPc = "done" /\ canonicalize(mArgs.name) \notin mArgs.existing) =>
        /\ mResult.queries = <<canonicalize(mArgs.name)>>
        /\ mResult.score = MatchReported.score
        /\ IF MatchReported.name # <<>> /\ MatchReported.score >= mArgs.threshold
           THEN mResult.status = "existing" /\ mResult.name = MatchReported.name
           ELSE mResult.status = "new" /\ mResult.name = canonicalize(mArgs.name)
        /\ (names = <<>> => mResult.score = 0 /\ mResult.status = "new")

\* C6 witness: "tomatoes" scores exactly the threshold 0.71 against the stored
\* "tomato" and is matched to it
C6_Witness ==
    /\ mPc = "done"
    /\ mArgs.name = <<"tomatoes">>
    /\ mArgs.existing = {}
    /\ mArgs.threshold = 71
    /\ names = << <<"tomato">> >>
    /\ mResult = [status |-> "existing", name |-> <<"tomato">>, score |-> 71,
                  queries |-> << <<"tomatoes">> >>]


(***************************************************************************)
(* src/notion/mapping.py: map_and_upsert                                   *)
(***************************************************************************)
\* getattr(ing, "name", None) or getattr(ing, "raw", None) or ""
MatchInputOf(ing) ==
    IF ing.name # <<>> THEN ing.name
    ELSE IF ing.raw # NoText /\ ing.raw # <<>> THEN ing.raw
    ELSE <<>>

\* key = matched_name or match_input
KeyOf(m, match_input) == IF m.name # <<>> THEN m.name ELSE match_input

Max(a, b) == IF a >= b THEN a ELSE b

\* the aggregator created for a key that is not in the dict yet
NewEntry(key, score) ==
    [name |-> key, quantity |-> 0, quantity_counted |-> 0, unit |-> None,
     notes |-> <<>>, raws |-> <<>>, score |-> score, orig_items |-> <<>>]

\* a plausible slip: the score of the last mention is kept instead of the maximum
Accumulate_last_score(entry, ing, score) ==
    [entry EXCEPT
        !.quantity = IF ing.quantity # Absent THEN @ + Val(ing.quantity) ELSE @,
        !.quantity_counted = IF ing.quantity # Absent THEN @ + 1 ELSE @,
        !.unit = IF (@ = None \/ @ = "") /\ ing.unit # None /\ ing.unit # ""
                 THEN ing.unit ELSE @,
        !.notes = IF ing.notes # NoText /\ ing.notes # <<>> THEN Append(@, ing.notes) ELSE @,
        !.raws = IF ing.raw # NoText /\ ing.raw # <<>> THEN Append(@, ing.raw) ELSE @,
        !.score = score,
        !.orig_items = Append(@, ing)]

\* a plausible slip: a quantity is added only when the mention's unit is the
\* unit kept so far
Accumulate_same_unit_only(entry, ing, score) ==
    [entry EXCEPT
        !.quantity = IF ing.quantity # Absent /\ (@ = 0 \/ ing.unit = entry.unit)
                     THEN @ + Val(ing.quantity) ELSE @,
        !.quantity_counted = IF ing.quantity # Absent THEN @ + 1 ELSE @,
        !.unit = IF (@ = None \/ @ = "") /\ ing.unit # None /\ ing.unit # ""
                 THEN ing.unit ELSE @,
        !.notes = IF ing.notes # NoText /\ ing.notes # <<>> THEN Append(@, ing.notes) ELSE @,
        !.raws = IF ing.raw # NoText /\ ing.raw # <<>> THEN Append(@, ing.raw) ELSE @,
        !.score = Max(@, score),
        !.orig_items = Append(@, ing)]

\* the body of the first pass after the aggregator is found: add the quantity,
\* keep the first non-empty unit, collect notes and raws, take the maximum score
Accumulate(entry, ing, score) ==
    [entry EXCEPT
        !.quantity = IF ing.quantity # Absent THEN @ + Val(ing.quantity) ELSE @,
        !.quantity_counted = IF ing.quantity # Absent THEN @ + 1 ELSE @,
        !.unit = IF (@ = None \/ @ = "") /\ ing.unit # None /\ ing.unit # ""
                 THEN ing.unit ELSE @,
        !.notes = IF ing.notes # NoText /\ ing.notes # <<>> THEN Append(@, ing.notes) ELSE @,
        !.raws = IF ing.raw # NoText /\ ing.raw # <<>> THEN Append(@, ing.raw) ELSE @,
        !.score = Max(@, score),
        !.orig_items = Append(@, ing)]

\* the matcher call of the first pass: an exception of match_or_create is
\* caught and answered as ("new", match_input, 0.0)
MatcherAnswer(ing, raised, existing_names, ns, v, threshold) ==
    IF raised
    THEN [status |-> "new", name |-> MatchInputOf(ing), score |-> 0, queries |-> <<>>]
    ELSE match_or_create(MatchInputOf(ing), existing_names, ns, v, threshold)

\* position of a key in the aggregation dict (insertion order), 0 if absent
KeyIndex(agg, key) ==
    IF \E i \in 1..Len(agg) : agg[i].name = key
    THEN CHOOSE i \in 1..Len(agg) : agg[i].name = key
    ELSE 0

\* a plausible slip: a new aggregator is inserted for every mention
AccumulateAt_always_new(agg, key, ing, score) ==
    Append(agg, Accumulate(NewEntry(key, score), ing, score))

\* key not in aggregated: a new aggregator is inserted; then the mention is
\* accumulated into the aggregator of its key
AccumulateAt(agg, key, ing, score) ==
    LET at == KeyIndex(agg, key)
        agg1 == IF at = 0 THEN Append(agg, NewEntry(key, score)) ELSE agg
        pos == IF at = 0 THEN Len(agg1) ELSE at
    IN [agg1 EXCEPT ![pos] = Accumulate(@, ing, score)]

\* the loop body for the mention ing, m being the matcher's answer for it
FirstPassStep(agg, ing, m) ==
    AccumulateAt(agg, KeyOf(m, MatchInputOf(ing)), ing, m.score)

\* first pass: for ing in recipe.ingredients; raises[i] tells whether the
\* matcher call for mention i raises
RECURSIVE FirstPass(_, _, _, _, _, _, _)
FirstPass(ings, raises, agg, existing_names, ns, v, threshold) ==
    IF ings = <<>> THEN agg
    ELSE FirstPass(Tail(ings), Tail(raises),
                   FirstPassStep(agg, Head(ings),
                                 MatcherAnswer(Head(ings), Head(raises), existing_names,
                                               ns, v, threshold)),
                   existing_names, ns, v, threshold)

\* list(dict.fromkeys(xs)): first occurrences, in order
RECURSIVE Dedup(_)
Dedup(xs) ==
    IF xs = <<>> THEN <<>>
    ELSE LET init == Dedup(SubSeq(xs, 1, Len(xs) - 1))
             last == xs[Len(xs)]
         IN IF \E i \in 1..Len(init) : init[i] = last THEN init ELSE Append(init, last)

\* "; ".join(parts)
RECURSIVE JoinSemi(_)
JoinSemi(parts) ==
    IF parts = <<>> THEN <<>>
    ELSE IF Len(parts) = 1 THEN parts[1]
    ELSE parts[1] \o <<";", " ">> \o JoinSemi(Tail(parts))

\* "; ".join(dict.fromkeys(xs)) if xs else None
Merged(xs) == IF xs = <<>> THEN NoText ELSE JoinSemi(Dedup(xs))

\* second pass: the summary entry built from one aggregator
SummaryEntry(agg) ==
    [name |-> agg.name,
     raw |-> Merged(agg.raws),
     quantity |-> IF agg.quantity_counted > 0 THEN Some(agg.quantity) ELSE Absent,
     unit |-> agg.unit,
     notes |-> Merged(agg.notes),
     score |-> agg.score]

\* notion_io.upsert_ingredient(agg["name"], raw=merged_raw): the call made
UpsertCall(agg) == [name |-> agg.name, raw |-> Merged(agg.raws)]

\* agg["orig_items"]: the mentions accumulated under one key
OrigItems(agg) == agg.orig_items

\* no matcher call raises
NoRaises(ings) == [i \in 1..Len(ings) |-> FALSE]

\* map_and_upsert(recipe, index, threshold): summary["ingredients"], the
\* upsert_ingredient calls and the mentions accumulated under each key, in
\* the order of the aggregation dict
map_and_upsert(ings, raises, existing_names, ns, v, threshold) ==
    LET aggregated == FirstPass(ings, raises, <<>>, existing_names, ns, v, threshold)
    IN [ingredients |-> MapSeq(SummaryEntry, aggregated),
        upserts |-> MapSeq(UpsertCall, aggregated),
        assigned |-> MapSeq(OrigItems, aggregated)]

\* ingredient mentions given to the harness
MentionNames == { <<"Roma", " ", "tomatoes">>, <<"tomatoes">>, <<"garlic">> }
MentionQuantities == {Absent, Some(1), Some(2)}
MentionStyles ==
    { [unit |-> "", notes |-> <<>>, raw |-> NoText],
      [unit |-> "clove", notes |-> <<"minced">>, raw |-> <<"raw", " ", "a">>],
      [unit |-> "clove", notes |-> <<"peeled">>, raw |-> NoText],
      [unit |-> "tsp", notes |-> <<"minced">>, raw |-> <<"raw", " ", "b">>] }

Mentions ==
    { [name |-> n, quantity |-> q, unit |-> st.unit, notes |-> st.notes, raw |-> st.raw] :
        n \in MentionNames, q \in MentionQuantities, st \in MentionStyles }

\* mentions that differ in their name only
PlainMentions ==
    {m \in Mentions : m.quantity = Some(1) /\ m.unit = "clove" /\ m.raw = NoText}

\* the recipes given to map_and_upsert and the matcher calls that raise: every
\* recipe with a matcher that answers, and the recipes of plain mentions with
\* every pattern of raising calls
MapRuns ==
    {[ingredients |-> ings, raises |-> NoRaises(ings)] :
        ings \in SeqsUpTo(Mentions, MaxMentions)}
    \cup UNION {{[ingredients |-> ings, raises |-> r] :
                    r \in [1..Len(ings) -> BOOLEAN]} :
                 ings \in SeqsUpTo(PlainMentions, MaxMentions)}

\* the ingredient names notion_io.list_ingredients() returns
ExistingLists == { <<>>, << <<"tomato">> >>, << <<"tomato">>, <<"garlic">> >> }

Range(f) == {f[i] : i \in DOMAIN f}

InitMap ==
    /\ IndexIdle
    /\ CanonIdle
    /\ MatchIdle
    /\ MapIdle
    /\ ParseIdle
    /\ ExtIdle

\* url_to_notion: existing = list_ingredients(); index.build(list(existing.keys()))
MapBuildIndex ==
    /\ mapPc = "idle"
    /\ lastOp = <<"init">>
    /\ \E ns \in ExistingLists : Build(ns)
    /\ UNCHANGED <<canonVars, matchVars, mapVars, parseVars, extVars>>

\* summary = map_and_upsert(recipe, wrapper, threshold), the ingredient store
\* holding the names the index was built from
MapAndUpsert ==
    /\ mapPc = "idle"
    /\ lastOp # <<"init">>
    /\ \E run \in MapRuns, threshold \in {50, DefaultThreshold} :
         /\ mapIn' = [ingredients |-> run.ingredients, raises |-> run.raises,
                      existing |-> Range(names), threshold |-> threshold]
         /\ mapOut' = map_and_upsert(run.ingredients, run.raises, Range(names),
                                     names, vecs, threshold)
    /\ mapPc' = "done"
    /\ UNCHANGED <<canonVars, indexVars, matchVars, parseVars, extVars>>

NextMap == MapBuildIndex \/ MapAndUpsert

SpecMap == InitMap /\ [][NextMap]_vars

(***************************************************************************)
(* Claims about the aggregation pass (SpecMap).                            *)
(***************************************************************************)
\* the matcher's decision for mention i of the recipe given to map_and_upsert
MentionMatch(i) ==
    MatcherAnswer(mapIn.ingredients[i], mapIn.raises[i], mapIn.existing,
                  names, vecs, mapIn.threshold)

MentionKey(i) == KeyOf(MentionMatch(i), MatchInputOf(mapIn.ingredients[i]))

MentionsOf(key) == {i \in 1..Len(mapIn.ingredients) : MentionKey(i) = key}

RECURSIVE SumQuantities(_)
SumQuantities(I) ==
    IF I = {} THEN 0
    ELSE LET i == CHOOSE j \in I : TRUE
             q == mapIn.ingredients[i].quantity
         IN (IF q = Absent THEN 0 ELSE Val(q)) + SumQuantities(I \ {i})

NotesOf(I) == {mapIn.ingredients[i].notes : i \in I} \ {<<>>, NoText}

\* the orderings of a finite set, each element once
Orderings(S) ==
    {f \in [1..Cardinality(S) -> S] : \A a, b \in 1..Cardinality(S) : f[a] = f[b] => a = b}

EntriesFor(key) ==
    {j \in 1..Len(mapOut.ingredients) : mapOut.ingredients[j].name = key}

\* C7: mentions that resolve to the same canonical identity and carry the same
\* unit end up in exactly one summary entry; its quantity is the sum of their
\* quantities, its notes are their notes joined without repetition, and its
\* score is the highest match score among them.
C7_DuplicatesAggregated ==
    mapPc = "done" =>
        \A i \in 1..Len(mapIn.ingredients) :
            LET key == MentionKey(i)
                I == MentionsOf(key)
            IN (\A a, b \in I : mapIn.ingredients[a].unit = mapIn.ingredients[b].unit) =>
                /\ Cardinality(EntriesFor(key)) = 1
                /\ LET e == mapOut.ingredients[CHOOSE j \in EntriesFor(key) : TRUE]
                   IN /\ e.quantity =
                            IF \A a \in I : mapIn.ingredients[a].quantity = Absent
                            THEN Absent ELSE Some(SumQuantities(I))
                      /\ IF NotesOf(I) = {} THEN e.notes = NoText
                         ELSE \E parts \in Orderings(NotesOf(I)) : e.notes = JoinSemi(parts)
                      /\ \A a \in I : e.score >= MentionMatch(a).score
                      /\ \E a \in I : e.score = MentionMatch(a).score

\* C7 witness: "Roma tomatoes" (1 clove, minced) and "tomatoes" (2 clove, peeled)
\* both resolve to "tomato", with scores 1.0 and 0.71, and give one entry with
\* quantity 3, both notes and score 1.0
C7_Witness ==
    /\ mapPc = "done"
    /\ Len(mapIn.ingredients) = 2
    /\ mapIn.ingredients[1].name = <<"tomatoes">>
    /\ mapIn.ingredients[2].name = <<"Roma", " ", "tomatoes">>
    /\ mapIn.ingredients[1].quantity = Some(1)
    /\ mapIn.ingredients[2].quantity = Some(2)
    /\ MentionMatch(1).score = 71
    /\ MentionMatch(2).score = 100
    /\ mapOut.ingredients =
         << [name |-> <<"tomato">>, raw |-> <<"raw", " ", "a">>, quantity |-> Some(3),
             unit |-> "clove", notes |-> <<"peeled", ";", " ", "minced">>,
             score |-> 100] >>

(***************************************************************************)
(* src/ingest/parse_llm_gemini.py and src/orchestrate/run.py               *)
(*                                                                         *)
(* Minutes are kept in sixtieths (10 minutes is 10 * MinuteScale), so that *)
(* the orchestrator's secs / 60 stays a whole number.  A page of the       *)
(* pipeline carries at most one plain JSON-LD object of @type "Recipe"     *)
(* (the card), which both finders return; the finders themselves are       *)
(* modelled on whole pages in the structured-hint section below.           *)
(***************************************************************************)
MinuteScale == 60

\* JSON-LD duration values: key absent, "PT<h>H<m>M<s>S", "<m> minutes", or a
\* text without digits
NoDur == [kind |-> "none", h |-> 0, m |-> 0, s |-> 0]
Iso(h, m, s) == [kind |-> "iso", h |-> h, m |-> m, s |-> s]
MinutesWords(m) == [kind |-> "minutes_words", h |-> 0, m |-> m, s |-> 0]
\* "<h> hours", a bare integer, and a text without digits
HoursWords(h) == [kind |-> "hours_words", h |-> h, m |-> 0, s |-> 0]
BareNumber(n) == [kind |-> "number", h |-> 0, m |-> n, s |-> 0]
NoDigits == [kind |-> "text", h |-> 0, m |-> 0, s |-> 0]

\* parse_recipe_text._parse_iso8601_minutes
parse_iso8601_minutes(d) ==
    IF d.kind = "iso"
    THEN Some((d.h * 60 + d.m + (IF d.s >= 30 THEN 1 ELSE 0)) * MinuteScale)
    ELSE Absent

\* url_to_notion._parse_iso_duration_to_minutes
parse_iso_duration_to_minutes(d) ==
    CASE d.kind = "iso" -> Some(d.h * 60 * MinuteScale + d.m * MinuteScale + d.s)
      [] d.kind = "hours_words" -> Some(d.h * 60 * MinuteScale)
      [] d.kind = "minutes_words" -> Some(d.m * MinuteScale)
      [] d.kind = "number" -> Some(d.m * MinuteScale)
      [] OTHER -> Absent

\* recipeYield values: key absent, a number, or a text
NoYield == [kind |-> "none", n |-> 0, text |-> <<>>]
YieldNumber(n) == [kind |-> "number", n |-> n, text |-> <<>>]
YieldText(t) == [kind |-> "text", n |-> 0, text |-> t]

\* the value of a lexeme that is a run of digits
IsDigits(t) == t \in {"4", "6"}
DigitsValue(t) == IF t = "4" THEN 4 ELSE 6

\* re.search(r"(\d+)", text): the first run of digits
RECURSIVE FirstNumber(_)
FirstNumber(text) ==
    IF text = <<>> THEN Absent
    ELSE IF IsDigits(Head(text)) THEN Some(DigitsValue(Head(text)))
    ELSE FirstNumber(Tail(text))

NoCard == [present |-> FALSE, prepTime |-> NoDur, cookTime |-> NoDur,
           totalTime |-> NoDur, recipeYield |-> NoYield]

\* the recipe cards a fetched page may carry
Cards ==
    { [present |-> TRUE, prepTime |-> p, cookTime |-> c, totalTime |-> t,
       recipeYield |-> y] :
        p \in {NoDur, Iso(0, 10, 0)}, c \in {NoDur, Iso(0, 20, 0), MinutesWords(20)},
        t \in {NoDur, Iso(0, 45, 30)},
        y \in {NoYield, YieldNumber(4), YieldText(<<"6", " ", "servings">>),
               YieldText(<<"a", " ", "loaf">>)} }

Pages == Cards \cup {NoCard}

NoTime == [prep_min |-> Absent, cook_min |-> Absent, total_min |-> Absent]

\* the ingredient list every draft of the harness carries
DraftIngredients ==
    << [name |-> <<"garlic">>, quantity |-> Some(1), unit |-> "clove",
        notes |-> <<"minced">>, raw |-> NoText],
       [name |-> <<"garlic">>, quantity |-> Some(2), unit |-> "clove",
        notes |-> <<"peeled">>, raw |-> NoText] >>

\* schema-conformant JSON objects the model may answer: the RecipePayload
\* fields, and top-level prep_min / cook_min / total_min keys beside "time"
ValidData ==
    { [title |-> <<"soup">>, source_url |-> NoText, yield_text |-> y,
       servings |-> sv,
       time |-> [prep_min |-> p, cook_min |-> c, total_min |-> t],
       top |-> tp, ingredients |-> DraftIngredients,
       steps |-> << <<"boil">> >>] :
        y \in {NoText, <<"1", " ", "pot">>}, sv \in {Absent, Some(2)},
        p \in {Absent, Some(5 * MinuteScale)}, c \in {Absent, Some(7 * MinuteScale)},
        t \in {Absent, Some(15 * MinuteScale)},
        tp \in {NoTime, [prep_min |-> Some(3 * MinuteScale),
                         cook_min |-> Some(4 * MinuteScale), total_min |-> Absent]} }

\* answers that follow the prompt's "empty string for text you cannot fill,
\* -1 for numbers you cannot fill"; RecipePayload puts no constraint on the
\* length of a string or the sign of a number, so they validate
SentinelData ==
    { [title |-> <<>>, source_url |-> NoText, yield_text |-> NoText,
       servings |-> Some(-1),
       time |-> [prep_min |-> Some(-1 * MinuteScale), cook_min |-> Absent,
                 total_min |-> Some(-1 * MinuteScale)],
       top |-> NoTime, ingredients |-> DraftIngredients, steps |-> << <<>> >>],
      [title |-> <<"soup">>, source_url |-> NoText, yield_text |-> NoText,
       servings |-> Some(-1), time |-> NoTime,
       top |-> NoTime, ingredients |-> DraftIngredients,
       steps |-> << <<"boil">>, <<>> >>] }

\* what one generate_content call may answer: no text, text without JSON, JSON
\* that fails RecipePayload validation (with pydantic's detail), valid JSON
NoData == [title |-> <<>>, source_url |-> NoText, yield_text |-> NoText,
           servings |-> Absent, time |-> NoTime, top |-> NoTime,
           ingredients |-> <<>>, steps |-> <<>>]

Responses ==
    { [kind |-> "empty", detail |-> "", data |-> NoData],
      [kind |-> "nojson", detail |-> "", data |-> NoData],
      [kind |-> "invalid", detail |-> "title: field required", data |-> NoData],
      [kind |-> "invalid", detail |-> "steps: field required", data |-> NoData] }
    \cup { [kind |-> "valid", detail |-> "", data |-> d] :
               d \in ValidData \cup SentinelData }

\* RecipePayload.model_validate(data): the model's fields
Validated(data) ==
    [title |-> data.title, source_url |-> data.source_url,
     yield_text |-> data.yield_text, servings |-> data.servings,
     time |-> data.time, ingredients |-> data.ingredients, steps |-> data.steps]

\* if total still missing but prep and cook present, sum them
SumTotal(time) ==
    IF time.total_min = Absent /\ time.prep_min # Absent /\ time.cook_min # Absent
    THEN [time EXCEPT !.total_min = Some(Val(time.prep_min) + Val(time.cook_min))]
    ELSE time

Backfill(old, new) == IF old = Absent /\ new # Absent THEN new ELSE old

\* merge of the top-level prep_min / cook_min / total_min keys of the answer
MergeTopLevel(recipe, data) ==
    [recipe EXCEPT !.time =
        SumTotal([prep_min |-> Backfill(@.prep_min, data.top.prep_min),
                  cook_min |-> Backfill(@.cook_min, data.top.cook_min),
                  total_min |-> Backfill(@.total_min, data.top.total_min)])]

\* the servings parse_recipe_text reads from recipeYield
HintServings(ry) ==
    CASE ry.kind = "number" /\ ry.n # 0 -> Some(ry.n)
      [] ry.kind = "text" /\ ry.text # <<>> -> FirstNumber(ry.text)
      [] OTHER -> Absent

\* merge of missing times and servings from the page's JSON-LD recipe object
MergeHint(recipe, hint) ==
    IF ~hint.present THEN recipe
    ELSE [recipe EXCEPT
            !.time = SumTotal(
                [prep_min |-> Backfill(@.prep_min, parse_iso8601_minutes(hint.prepTime)),
                 cook_min |-> Backfill(@.cook_min, parse_iso8601_minutes(hint.cookTime)),
                 total_min |-> Backfill(@.total_min, parse_iso8601_minutes(hint.totalTime))]),
            !.servings = Backfill(@, HintServings(hint.recipeYield))]

\* if url and not recipe.source_url: recipe.source_url = url
SetSourceUrl(recipe, url) ==
    IF url # <<>> /\ url # NoText /\ (recipe.source_url = NoText \/ recipe.source_url = <<>>)
    THEN [recipe EXCEPT !.source_url = url]
    ELSE recipe

\* url_to_notion._parse_recipe_card
parse_recipe_card(card) ==
    LET ry == card.recipeYield
        number == IF ry.kind = "number" THEN Some(ry.n)
                  ELSE IF ry.kind = "text" THEN FirstNumber(ry.text) ELSE Absent
    IN [servings |-> number,
        yield_text |-> IF ry.kind = "text" /\ number = Absent THEN ry.text ELSE NoText,
        prep_min |-> parse_iso_duration_to_minutes(card.prepTime),
        cook_min |-> parse_iso_duration_to_minutes(card.cookTime),
        total_min |-> parse_iso_duration_to_minutes(card.totalTime)]

Override(old, new) == IF new # Absent THEN new ELSE old

\* a plausible slip: the card only fills what the draft lacks
apply_card_backfill(recipe, pc) ==
    [recipe EXCEPT
        !.servings = Backfill(@, pc.servings),
        !.yield_text = IF pc.yield_text # NoText /\ (@ = NoText \/ @ = <<>>)
                       THEN pc.yield_text ELSE @,
        !.time = [prep_min |-> Backfill(@.prep_min, pc.prep_min),
                  cook_min |-> Backfill(@.cook_min, pc.cook_min),
                  total_min |-> Backfill(@.total_min, pc.total_min)]]

\* url_to_notion: "Apply parsed card values to recipe model, prefer card values"
apply_card(recipe, pc) ==
    [recipe EXCEPT
        !.servings = Override(@, pc.servings),
        !.yield_text = IF pc.yield_text # NoText /\ (@ = NoText \/ @ = <<>>)
                       THEN pc.yield_text ELSE @,
        !.time = [prep_min |-> Override(@.prep_min, pc.prep_min),
                  cook_min |-> Override(@.cook_min, pc.cook_min),
                  total_min |-> Override(@.total_min, pc.total_min)]]

\* for attempt in range(2)
MaxAttempts == 2

Url == <<"https://example.com/soup">>

Raised(error, msg, detail, stage) ==
    [kind |-> "raised", error |-> error, msg |-> msg, detail |-> detail,
     stage |-> stage, value |-> <<>>]

\* value is <<>> for None, << r >> for a returned recipe r
Returned(value) ==
    [kind |-> "returned", error |-> "", msg |-> "", detail |-> "", stage |-> "",
     value |-> value]

\* a plausible slip: an empty answer is retried like a validation failure
response_action_retry_empty(kind, attempt) ==
    CASE kind = "empty" -> IF attempt = 0 THEN "retry" ELSE "raise_empty"
      [] kind = "nojson" -> "raise_nojson"
      [] kind = "invalid" -> IF attempt = 0 THEN "retry" ELSE "raise_validation"
      [] OTHER -> "return"

\* a plausible slip: a validation failure is raised without the retry
response_action_no_retry(kind, attempt) ==
    CASE kind = "empty" -> "raise_empty"
      [] kind = "nojson" -> "raise_nojson"
      [] kind = "invalid" -> "raise_validation"
      [] OTHER -> "return"

\* what the loop body does with the answer of attempt number `attempt`
response_action(kind, attempt) ==
    CASE kind = "empty" -> "raise_empty"
      [] kind = "nojson" -> "raise_nojson"
      [] kind = "invalid" -> IF attempt = 0 THEN "retry" ELSE "raise_validation"
      [] OTHER -> "return"

\* the JSON-LD recipe object parse_recipe_text works with: only from its html
\* argument, which url_to_notion does not pass
PageJsonLd == IF pMode = "direct" THEN pHtml[1] ELSE NoCard

InitIngest ==
    /\ IndexIdle
    /\ CanonIdle
    /\ MatchIdle
    /\ MapIdle
    /\ ParseIdle
    /\ ExtIdle

\* parse_recipe_text(text, final, html) called on its own (scripts/test_ingest.py)
StartDirect ==
    /\ pPc = "idle"
    /\ \E page \in Pages : pHtml' = <<page>>
    /\ pMode' = "direct"
    /\ pPc' = "parse"
    /\ UNCHANGED <<pPrompt, pAttempt, pCalls, pResps, pDraft, pRecipe, pSummary, pOutcome>>
    /\ UNCHANGED <<canonVars, indexVars, matchVars, mapVars, extVars>>

\* url_to_notion(url) is called
StartPipeline ==
    /\ pPc = "idle"
    /\ pMode' = "pipeline"
    /\ pPc' = "fetch"
    /\ UNCHANGED <<pHtml, pPrompt, pAttempt, pCalls, pResps, pDraft, pRecipe, pSummary, pOutcome>>
    /\ UNCHANGED <<canonVars, indexVars, matchVars, mapVars, extVars>>

\* html, final = fetch_url(url): raise_for_status() raises on a non-200 answer
Fetch ==
    /\ pPc = "fetch"
    /\ \/ \E page \in Pages :
            /\ pHtml' = <<page>>
            /\ pPc' = "extract"
            /\ UNCHANGED pOutcome
       \/ /\ pOutcome' = <<Raised("HTTPError", "", "", "fetch")>>
          /\ pPc' = "done"
          /\ UNCHANGED pHtml
    /\ UNCHANGED <<pMode, pPrompt, pAttempt, pCalls, pResps, pDraft, pRecipe, pSummary>>
    /\ UNCHANGED <<canonVars, indexVars, matchVars, mapVars, extVars>>

\* text = extract_main_text(html, final): open("text.txt") may raise
Extract ==
    /\ pPc = "extract"
    /\ \/ /\ pPc' = "parse"
          /\ UNCHANGED pOutcome
       \/ /\ pOutcome' = <<Raised("FileNotFoundError", "", "", "extract")>>
          /\ pPc' = "done"
    /\ UNCHANGED <<pMode, pHtml, pPrompt, pAttempt, pCalls, pResps, pDraft, pRecipe, pSummary>>
    /\ UNCHANGED <<canonVars, indexVars, matchVars, mapVars, extVars>>

\* parse_recipe_text up to the loop: the API key check, the JSON-LD hint, the prompt
ParseStart ==
    /\ pPc = "parse"
    /\ \/ /\ pPrompt' = <<[url |-> Url, page_json_ld |-> PageJsonLd]>>
          /\ pPc' = "call"
          /\ UNCHANGED pOutcome
       \/ /\ pOutcome' = <<Raised("RuntimeError", "GEMINI_API_KEY not configured.", "", "parse")>>
          /\ pPc' = "done"
          /\ UNCHANGED pPrompt
    /\ UNCHANGED <<pMode, pHtml, pAttempt, pCalls, pResps, pDraft, pRecipe, pSummary>>
    /\ UNCHANGED <<canonVars, indexVars, matchVars, mapVars, extVars>>

\* resp = client.models.generate_content(model, contents=prompt, config)
GenerateContent ==
    /\ pPc = "call"
    /\ pAttempt < MaxAttempts
    /\ pCalls' = Append(pCalls, pPrompt[1])
    /\ \/ \E r \in Responses :
            /\ pResps' = Append(pResps, r)
            /\ pPc' = "handle"
            /\ UNCHANGED pOutcome
       \/ /\ pOutcome' = <<Raised("APIError", "", "", "parse")>>
          /\ pPc' = "done"
          /\ UNCHANGED pResps
    /\ UNCHANGED <<pMode, pHtml, pPrompt, pAttempt, pDraft, pRecipe, pSummary>>
    /\ UNCHANGED <<canonVars, indexVars, matchVars, mapVars, extVars>>

\* the recipe parse_recipe_text returns for the validated answer `data`
ParsedRecipe(data) ==
    SetSourceUrl(MergeHint(MergeTopLevel(Validated(data), data), PageJsonLd), Url)

\* the rest of the loop body: the answer's text, its JSON, validation, the
\* merges and the return, or the retry, or the error
HandleResponse ==
    /\ pPc = "handle"
    /\ LET r == pResps[Len(pResps)]
           act == response_action(r.kind, pAttempt)
       IN CASE act = "raise_empty" ->
                 /\ pOutcome' = <<Raised("ValueError", "No content from Gemini response.", "", "parse")>>
                 /\ pPc' = "done"
                 /\ UNCHANGED <<pAttempt, pDraft, pRecipe>>
            [] act = "raise_nojson" ->
                 /\ pOutcome' = <<Raised("ValueError", "Failed to parse JSON.", "", "parse")>>
                 /\ pPc' = "done"
                 /\ UNCHANGED <<pAttempt, pDraft, pRecipe>>
            [] act = "retry" ->
                 /\ pAttempt' = pAttempt + 1
                 /\ pPc' = "call"
                 /\ UNCHANGED <<pOutcome, pDraft, pRecipe>>
            [] act = "raise_validation" ->
                 /\ pOutcome' = <<Raised("ValueError", "Gemini output failed validation: ",
                                         r.detail, "parse")>>
                 /\ pPc' = "done"
                 /\ UNCHANGED <<pAttempt, pDraft, pRecipe>>
            [] OTHER ->
                 /\ pDraft' = <<MergeTopLevel(Validated(r.data), r.data)>>
                 /\ pRecipe' = <<ParsedRecipe(r.data)>>
                 /\ IF pMode = "direct"
                    THEN /\ pOutcome' = <<Returned(<<ParsedRecipe(r.data)>>)>>
                         /\ pPc' = "done"
                    ELSE /\ pPc' = "card"
                         /\ UNCHANGED pOutcome
                 /\ UNCHANGED pAttempt
    /\ UNCHANGED <<pMode, pHtml, pPrompt, pCalls, pResps, pSummary>>
    /\ UNCHANGED <<canonVars, indexVars, matchVars, mapVars, extVars>>

\* card = _find_jsonld_recipe(html); if card: apply the parsed card to the recipe
CardMerge ==
    /\ pPc = "card"
    /\ pRecipe' = IF pHtml[1].present
                  THEN <<apply_card(pRecipe[1], parse_recipe_card(pHtml[1]))>>
                  ELSE pRecipe
    /\ pPc' = "list"
    /\ UNCHANGED <<pMode, pHtml, pPrompt, pAttempt, pCalls, pResps, pDraft, pSummary, pOutcome>>
    /\ UNCHANGED <<canonVars, indexVars, matchVars, mapVars, extVars>>

\* existing = notion_io.list_ingredients(); index.build(list(existing.keys()))
ListAndBuild ==
    /\ pPc = "list"
    /\ \/ /\ \E ns \in ExistingLists : Build(ns)
          /\ pPc' = "map"
          /\ UNCHANGED pOutcome
       \/ /\ pOutcome' = <<Raised("NotionError", "", "", "dedupe")>>
          /\ pPc' = "done"
          /\ UNCHANGED indexVars
    /\ UNCHANGED <<pMode, pHtml, pPrompt, pAttempt, pCalls, pResps, pDraft, pRecipe, pSummary>>
    /\ UNCHANGED <<canonVars, matchVars, mapVars, extVars>>

\* summary = notion_mapping.map_and_upsert(recipe, wrapper): an upsert may raise
MapStage ==
    /\ pPc = "map"
    /\ \/ /\ pSummary' = <<map_and_upsert(pRecipe[1].ingredients,
                                          NoRaises(pRecipe[1].ingredients),
                                          Range(names), names, vecs,
                                          DefaultThreshold)>>
          /\ pPc' = "artifacts"
          /\ UNCHANGED pOutcome
       \/ /\ pOutcome' = <<Raised("NotionError", "", "", "persistence")>>
          /\ pPc' = "done"
          /\ UNCHANGED pSummary
    /\ UNCHANGED <<pMode, pHtml, pPrompt, pAttempt, pCalls, pResps, pDraft, pRecipe>>
    /\ UNCHANGED <<canonVars, indexVars, matchVars, mapVars, extVars>>

\* the artifact files are written inside try / except Exception; the function
\* ends without a return statement
WriteArtifacts ==
    /\ pPc = "artifacts"
    /\ pOutcome' = <<Returned(<<>>)>>
    /\ pPc' = "done"
    /\ UNCHANGED <<pMode, pHtml, pPrompt, pAttempt, pCalls, pResps, pDraft, pRecipe, pSummary>>
    /\ UNCHANGED <<canonVars, indexVars, matchVars, mapVars, extVars>>

NextIngest ==
    \/ StartDirect
    \/ StartPipeline
    \/ Fetch
    \/ Extract
    \/ ParseStart
    \/ GenerateContent
    \/ HandleResponse
    \/ CardMerge
    \/ ListAndBuild
    \/ MapStage
    \/ WriteArtifacts

SpecIngest == InitIngest /\ [][NextIngest]_vars

(***************************************************************************)
(* Claims about parse_recipe_text and url_to_notion (SpecIngest).          *)
(***************************************************************************)
Outcome == pOutcome[1]

ParseError(msg) ==
    /\ pOutcome # <<>>
    /\ Outcome.kind = "raised"
    /\ Outcome.error = "ValueError"
    /\ Outcome.msg = msg

ValidationFailed == ParseError("Gemini output failed validation: ")

\* C2: one invocation of parse_recipe_text makes at most two completion calls;
\* the second is made only when the first response failed validation and uses
\* the same prompt; when the second response fails validation too, the
\* invocation ends with a parse error carrying that validation detail.
C2_RetryOnce ==
    /\ Len(pCalls) <= 2
    /\ Len(pCalls) = 2 => (pResps[1].kind = "invalid" /\ pCalls[2] = pCalls[1])
    /\ (Len(pResps) = 2 /\ pResps[2].kind = "invalid" /\ pPc # "handle") =>
          (pPc = "done" /\ ValidationFailed /\ Outcome.detail = pResps[2].detail)

C2_Witness ==
    /\ pPc = "done"
    /\ Len(pCalls) = 2
    /\ Len(pResps) = 2
    /\ pResps[1].detail = "title: field required"
    /\ pResps[2].kind = "invalid"
    /\ ValidationFailed
    /\ Outcome.detail = "steps: field required"

\* C3 as stated: whenever parse_recipe_text ends with a parse error (empty
\* response, no JSON recovered, or validation failure), the completion call
\* has been made twice.
C3_ErrorOnlyAfterRetry ==
    (pOutcome # <<>> /\ Outcome.kind = "raised" /\ Outcome.error = "ValueError")
        => Len(pCalls) = 2

\* C3 as amended: a parse error for a validation failure is raised only after
\* the one retry (two calls, both responses invalid); a parse error for an
\* empty response or for a response without JSON is raised at once, at the
\* call that got that response, every earlier response having failed validation.
C3_ErrorAtFailingAttempt ==
    /\ ValidationFailed =>
          (Len(pCalls) = 2 /\ pResps[1].kind = "invalid" /\ pResps[2].kind = "invalid")
    /\ ParseError("No content from Gemini response.") =>
          /\ Len(pResps) = Len(pCalls)
          /\ pResps[Len(pResps)].kind = "empty"
          /\ \A i \in 1..(Len(pResps) - 1) : pResps[i].kind = "invalid"
    /\ ParseError("Failed to parse JSON.") =>
          /\ Len(pResps) = Len(pCalls)
          /\ pResps[Len(pResps)].kind = "nojson"
          /\ \A i \in 1..(Len(pResps) - 1) : pResps[i].kind = "invalid"

C3_Witness ==
    /\ ParseError("Failed to parse JSON.")
    /\ Len(pCalls) = 2
    /\ pResps[1].kind = "invalid"

\* the fallback record
Fallback == [title |-> <<"unknown">>, ingredients |-> <<>>]

\* C4: url_to_notion never propagates a stage's failure: for every URL it
\* returns, and when a stage failed (so that no summary was produced) it
\* returns the fallback record with title "unknown" and no ingredients.
C4_NeverPropagates ==
    (pMode = "pipeline" /\ pPc = "done") =>
        /\ Outcome.kind = "returned"
        /\ pSummary = <<>> =>
              /\ Outcome.value # <<>>
              /\ Outcome.value[1].title = Fallback.title
              /\ Outcome.value[1].ingredients = Fallback.ingredients

\* the recipe the invocation has produced, all merges applied
Merged_Done ==
    /\ pRecipe # <<>>
    /\ \/ pMode = "direct" /\ pPc = "done"
       \/ pMode = "pipeline" /\ pPc \in {"list", "map", "artifacts", "done"}

Draft == pDraft[1]
Final == pRecipe[1]

\* the five fields of the draft and of the final recipe
FieldsOf(r) ==
    <<r.servings, r.yield_text, r.time.prep_min, r.time.cook_min, r.time.total_min>>

\* which of the five fields have a value
HasValue(r) ==
    <<r.servings # Absent, r.yield_text # NoText, r.time.prep_min # Absent,
      r.time.cook_min # Absent, r.time.total_min # Absent>>

\* C10 as stated: when the page carries a structured-data hint, every one of
\* servings, yield_text, prep_min, cook_min and total_min that the draft had
\* before the merge has the same value in the final recipe.
C10_NeverOverrides ==
    (Merged_Done /\ pHtml[1].present) =>
        \A f \in 1..5 : HasValue(Draft)[f] => FieldsOf(Final)[f] = FieldsOf(Draft)[f]

\* what the recipe cards of the harness state, in sixtieths of a minute: "PT10M",
\* "PT20M" or "20 minutes", "PT45M30S"; 4, "6 servings", "a loaf"
CardStates ==
    LET card == pHtml[1]
    IN <<CASE card.recipeYield = YieldNumber(4) -> Some(4)
           [] card.recipeYield = YieldText(<<"6", " ", "servings">>) -> Some(6)
           [] OTHER -> Absent,
         Absent,
         IF card.prepTime = NoDur THEN Absent ELSE Some(600),
         IF card.cookTime = NoDur THEN Absent ELSE Some(1200),
         IF card.totalTime = NoDur THEN Absent ELSE Some(2730)>>

\* C10 as amended: parse_recipe_text, given the page, never overrides a value
\* the draft has in any of the five fields.  url_to_notion, which merges the
\* recipe card itself, keeps the draft's yield_text, but servings, prep_min,
\* cook_min and total_min take the card's value whenever the card states one
\* and keep the draft's value otherwise.
C10_BackfillThenCardOverrides ==
    (Merged_Done /\ pHtml[1].present) =>
        /\ pMode = "direct" =>
              \A f \in 1..5 :
                  HasValue(Draft)[f] => FieldsOf(Final)[f] = FieldsOf(Draft)[f]
        /\ pMode = "pipeline" =>
              /\ HasValue(Draft)[2] => Final.yield_text = Draft.yield_text
              /\ \A f \in {1, 3, 4, 5} :
                    FieldsOf(Final)[f] = IF CardStates[f] # Absent THEN CardStates[f]
                                         ELSE FieldsOf(Draft)[f]

C10_Witness ==
    /\ pMode = "pipeline"
    /\ pPc = "done"
    /\ pOutcome # <<>>
    /\ Outcome.kind = "returned"
    /\ pHtml[1].recipeYield = YieldNumber(4)
    /\ pHtml[1].prepTime = NoDur
    /\ Draft.servings = Some(2)
    /\ Draft.time.prep_min = Some(5 * MinuteScale)
    /\ Draft.yield_text = <<"1", " ", "pot">>
    /\ Final.servings = Some(4)
    /\ Final.time.prep_min = Some(5 * MinuteScale)
    /\ Final.yield_text = <<"1", " ", "pot">>

\* an optional number that is absent or >= 0
AbsentOrNonNegative(o) == o = Absent \/ Val(o) >= 0

\* C21: every recipe returned by parse_recipe_text satisfies the RecipeDraft
\* data model: the title is a non-empty string, servings, prep_min, cook_min
\* and total_min are each absent or >= 0, and every step is a non-empty string.
C21_ConformsToDataModel ==
    (pOutcome # <<>> /\ pMode = "direct" /\ Outcome.kind = "returned") =>
        /\ Outcome.value[1].title # <<>>
        /\ AbsentOrNonNegative(Outcome.value[1].servings)
        /\ AbsentOrNonNegative(Outcome.value[1].time.prep_min)
        /\ AbsentOrNonNegative(Outcome.value[1].time.cook_min)
        /\ AbsentOrNonNegative(Outcome.value[1].time.total_min)
        /\ \A i \in 1..Len(Outcome.value[1].steps) : Outcome.value[1].steps[i] # <<>>

\* C11: for a page whose recipe block has prepTime "PT10M", cookTime "PT20M"
\* and no totalTime, and a draft without prep_min, cook_min and total_min, the
\* final recipe has prep_min = 10, cook_min = 20 and total_min = 30; and
\* whenever prep_min and cook_min are present in the final recipe, total_min
\* is present too (the sum, when nothing else provided it).
C11_TotalIsSum ==
    (Merged_Done /\ pHtml[1].present) =>
        /\ ( /\ pHtml[1].prepTime = Iso(0, 10, 0)
             /\ pHtml[1].cookTime = Iso(0, 20, 0)
             /\ pHtml[1].totalTime = NoDur
             /\ Draft.time = NoTime )
           => Final.time = [prep_min |-> Some(10 * MinuteScale),
                            cook_min |-> Some(20 * MinuteScale),
                            total_min |-> Some(30 * MinuteScale)]
        /\ (Final.time.prep_min # Absent /\ Final.time.cook_min # Absent)
           => Final.time.total_min # Absent

(***************************************************************************)
(* src/main.py: the sqlite tables and upsert_parsed_recipe.  A table is    *)
(* the sequence of its rows in id order; ids are AUTOINCREMENT and no row  *)
(* is ever deleted, so the next id is the number of rows plus one.         *)
(***************************************************************************)
MaxUpserts == 2

\* str(qty) for the quantities of the payloads
NumText(n) == IF n = 1 THEN "1" ELSE "2"

\* convert_qty_to_gml: density_cache is never written, so lookup_density
\* returns None and every volume unit converts to None
convert_qty_to_gml(qty, uom) ==
    IF qty = Absent THEN Absent
    ELSE IF uom = None THEN Absent
    ELSE IF uom \in {"g", "gram", "grams"} THEN qty
    ELSE IF uom \in {"kg", "kilogram", "kilograms"} THEN Some(Val(qty) * 1000)
    ELSE Absent

\* SELECT id FROM ingredients WHERE user_id = ? AND name = ?
IngredientId(table, user_id, can) ==
    IF \E i \in 1..Len(table) : table[i].user_id = user_id /\ table[i].name = can
    THEN (CHOOSE i \in 1..Len(table) : table[i].user_id = user_id /\ table[i].name = can)
    ELSE 0

\* lookup_or_create_ingredient: the ingredients table afterwards
lookup_or_create_ingredient(table, user_id, can, default_unit) ==
    IF IngredientId(table, user_id, can) # 0 THEN table
    ELSE Append(table, [id |-> Len(table) + 1, user_id |-> user_id, name |-> can,
                        default_unit |-> default_unit])

\* name = ing.get("name") or ing.get("raw") or ""
IngName(ing) ==
    IF ing.name # <<>> THEN ing.name
    ELSE IF ing.raw # NoText /\ ing.raw # <<>> THEN ing.raw ELSE <<>>

\* uom = ing.get("unit") or ing.get("uom") or None
IngUom(ing) == IF ing.unit = "" THEN None ELSE ing.unit

\* qty_raw = ing.get("raw") or (f"{qty or ''} {uom or ''} {name}").strip()
QtyRaw(ing) ==
    IF ing.raw # NoText /\ ing.raw # <<>> THEN ing.raw
    ELSE Strip((IF ing.quantity = Absent THEN <<>> ELSE <<NumText(Val(ing.quantity))>>)
               \o <<" ">> \o (IF ing.unit = "" THEN <<>> ELSE <<ing.unit>>)
               \o <<" ">> \o IngName(ing))

\* the body of the ingredient loop for one named ingredient, the ingredients
\* table already holding its canonical name
InsertIngredientRows(db, ing, user_id, recipe_id, table) ==
    [ingredients |-> table,
     recipe_ingredients |->
        Append(db.recipe_ingredients,
               [id |-> Len(db.recipe_ingredients) + 1, user_id |-> user_id,
                recipe_id |-> recipe_id,
                ingredient_id |-> IngredientId(table, user_id, canonicalize(IngName(ing))),
                qty_raw |-> QtyRaw(ing), uom |-> IngUom(ing),
                qty_gml |-> convert_qty_to_gml(ing.quantity, IngUom(ing)),
                notes |-> ing.notes]),
     changes_log |->
        Append(db.changes_log,
               [id |-> Len(db.changes_log) + 1, user_id |-> user_id,
                entity |-> "recipe_ingredient",
                entity_id |-> Len(db.recipe_ingredients) + 1,
                op |-> "create", version |-> 1])]

\* for ing in parsed.get("ingredients", []) or []
RECURSIVE ProcessIngredients(_, _, _, _)
ProcessIngredients(ings, db, user_id, recipe_id) ==
    IF ings = <<>> THEN db
    ELSE IF IngName(Head(ings)) = <<>>
    THEN ProcessIngredients(Tail(ings), db, user_id, recipe_id)
    ELSE ProcessIngredients(
             Tail(ings),
             InsertIngredientRows(db, Head(ings), user_id, recipe_id,
                 lookup_or_create_ingredient(db.ingredients, user_id,
                     canonicalize(IngName(Head(ings))), IngUom(Head(ings)))),
             user_id, recipe_id)

\* the row INSERT INTO recipes writes; version takes its DEFAULT 1
RecipeRow(id, parsed, user_id, source_url) ==
    [id |-> id, user_id |-> user_id,
     title |-> IF parsed.title # <<>> THEN parsed.title ELSE <<"untitled">>,
     source_url |-> source_url, servings |-> parsed.servings, version |-> 1]

\* the row INSERT INTO changes_log writes for the recipe
RecipeLogRow(id, recipe_id, user_id) ==
    [id |-> id, user_id |-> user_id, entity |-> "recipe", entity_id |-> recipe_id,
     op |-> "create", version |-> 1]

\* upsert_parsed_recipe(parsed, user_id, source_url): the tables after the
\* commit and the id returned
upsert_parsed_recipe(db, parsed, user_id, source_url) ==
    [tables |->
        ProcessIngredients(
            parsed.ingredients,
            [ingredients |-> db.ingredients,
             recipe_ingredients |-> db.recipe_ingredients,
             changes_log |-> Append(db.changes_log,
                                    RecipeLogRow(Len(db.changes_log) + 1,
                                                 Len(db.recipes) + 1, user_id))],
            user_id, Len(db.recipes) + 1),
     recipes |-> Append(db.recipes,
                        RecipeRow(Len(db.recipes) + 1, parsed, user_id, source_url)),
     returned |-> Len(db.recipes) + 1]

\* the payloads, users and URLs of the calls (those of the test, and a payload
\* with an ingredient without raw text and one without a name)
SaltItem == [name |-> <<"Salt">>, quantity |-> Some(1), unit |-> "tsp",
             raw |-> <<"1", " ", "tsp", " ", "salt">>, notes |-> NoText]
PepperItem == [name |-> <<"Pepper">>, quantity |-> Some(2), unit |-> "tbsp",
               raw |-> <<"2", " ", "tbsp", " ", "pepper">>, notes |-> NoText]
SaltGramsItem == [name |-> <<"salt">>, quantity |-> Some(2), unit |-> "g",
                  raw |-> NoText, notes |-> NoText]
NamelessItem == [name |-> <<>>, quantity |-> Absent, unit |-> "",
                 raw |-> NoText, notes |-> NoText]

Payloads ==
    { [title |-> t, servings |-> Some(2), ingredients |-> ings] :
        t \in { <<"Original">>, <<"Updated">> },
        ings \in { <<SaltItem>>, <<PepperItem>>, <<SaltGramsItem, NamelessItem, PepperItem>> } }

Users == {"user-123", "user-456"}
Urls == { <<"https://example.com/recipe">>, <<"https://example.com/other">> }

PipelineUntouched ==
    UNCHANGED <<canonVars, indexVars, matchVars, mapVars, parseVars, storeVars,
                queryVars, concVars, jsonVars, hintVars, syncVars>>

InitDb ==
    /\ IndexIdle
    /\ CanonIdle
    /\ MatchIdle
    /\ MapIdle
    /\ ParseIdle
    /\ ExtIdle

\* one call of upsert_parsed_recipe, from its connect to its commit
UpsertParsedRecipe ==
    /\ Len(dbCalls) < MaxUpserts
    /\ \E parsed \in Payloads, user_id \in Users, source_url \in Urls :
         \E out \in { upsert_parsed_recipe(
                          [recipes |-> recipes, changes_log |-> changes_log,
                           recipe_ingredients |-> recipe_ingredients,
                           ingredients |-> ingredients],
                          parsed, user_id, source_url) } :
            /\ recipes' = out.recipes
            /\ changes_log' = out.tables.changes_log
            /\ recipe_ingredients' = out.tables.recipe_ingredients
            /\ ingredients' = out.tables.ingredients
            /\ dbCalls' = Append(dbCalls, [parsed |-> parsed, user_id |-> user_id,
                                          source_url |-> source_url,
                                          returned |-> out.returned])
    /\ PipelineUntouched

NextDb == UpsertParsedRecipe

SpecDb == InitDb /\ [][NextDb]_vars

(***************************************************************************)
(* Claims about upsert_parsed_recipe (SpecDb).                             *)
(***************************************************************************)
\* the calls made so far for one user and one URL, and the first and the
\* latest of them
CallsFor(u, x) ==
    {i \in 1..Len(dbCalls) : dbCalls[i].user_id = u /\ dbCalls[i].source_url = x}

FirstCall(u, x) == dbCalls[CHOOSE i \in CallsFor(u, x) : \A j \in CallsFor(u, x) : i <= j]
LatestCall(u, x) == dbCalls[CHOOSE i \in CallsFor(u, x) : \A j \in CallsFor(u, x) : i >= j]

RecipeRowsFor(u, x) ==
    {k \in 1..Len(recipes) : recipes[k].user_id = u /\ recipes[k].source_url = x}

\* C12: after one or more calls for the same user and source_url, every call
\* has returned the same recipe id and the recipes table holds exactly one
\* row for that URL, with the title of the latest payload.
C12_IdempotentByUrl ==
    \A u \in Users, x \in Urls :
        CallsFor(u, x) # {} =>
            /\ \A i, j \in CallsFor(u, x) : dbCalls[i].returned = dbCalls[j].returned
            /\ Cardinality(RecipeRowsFor(u, x)) = 1
            /\ \A k \in RecipeRowsFor(u, x) :
                  recipes[k].title = LatestCall(u, x).parsed.title

\* the id the first call for (u, x) returned: the recipe of that URL
RecipeIdOf(u, x) == FirstCall(u, x).returned

\* the values of field op of the changes_log rows about recipe rid, in id order
RECURSIVE RecipeOps(_, _)
RecipeOps(log, rid) ==
    IF log = <<>> THEN <<>>
    ELSE IF Head(log).entity = "recipe" /\ Head(log).entity_id = rid
    THEN <<Head(log).op>> \o RecipeOps(Tail(log), rid)
    ELSE RecipeOps(Tail(log), rid)

\* C13: for the calls on one user and source_url, the recipe row's version
\* equals the number of calls made so far, and the changes_log entries of
\* that recipe, in id order, are one 'create' then one 'update' per later call.
C13_VersionCountsCalls ==
    \A u \in Users, x \in Urls :
        CallsFor(u, x) # {} =>
            /\ recipes[RecipeIdOf(u, x)].version = Cardinality(CallsFor(u, x))
            /\ RecipeOps(changes_log, RecipeIdOf(u, x)) =
                  [i \in 1..Cardinality(CallsFor(u, x)) |->
                      IF i = 1 THEN "create" ELSE "update"]

\* the qty_raw values of the recipe_ingredients rows of recipe rid, in id order
RECURSIVE QtyRawsOf(_, _)
QtyRawsOf(rows, rid) ==
    IF rows = <<>> THEN <<>>
    ELSE IF Head(rows).recipe_id = rid
    THEN <<Head(rows).qty_raw>> \o QtyRawsOf(Tail(rows), rid)
    ELSE QtyRawsOf(Tail(rows), rid)

\* the qty_raw values a payload's named ingredients give
RECURSIVE PayloadQtyRaws(_)
PayloadQtyRaws(ings) ==
    IF ings = <<>> THEN <<>>
    ELSE IF IngName(Head(ings)) = <<>> THEN PayloadQtyRaws(Tail(ings))
    ELSE <<QtyRaw(Head(ings))>> \o PayloadQtyRaws(Tail(ings))

\* C14: once upsert_parsed_recipe has been called again for a stored
\* source_url, the recipe_ingredients rows of that recipe are exactly the
\* ingredients of the latest payload.
C14_IngredientsReplaced ==
    \A u \in Users, x \in Urls :
        Cardinality(CallsFor(u, x)) >= 2 =>
            QtyRawsOf(recipe_ingredients, RecipeIdOf(u, x)) =
                PayloadQtyRaws(LatestCall(u, x).parsed.ingredients)

(***************************************************************************)
(* src/dedup/embed_index.py: EmbedIndex.save and EmbedIndex.load.  An      *)
(* artifact is <<>> while its file does not exist and << content >> once   *)
(* it has been written.                                                    *)
(***************************************************************************)
MaxStoreBuild == 1
MaxStoreNames == 2
MaxScanLen == 5

StoreNames == { <<"tomato">>, <<"garlic">> }

\* the vectors artifact after save: np.save runs only if self.vecs is not None
save_vecs(file, v) == IF v = None THEN file ELSE <<v>>

\* load(path_base) on a fresh index: what the index holds afterwards and
\* whether the call returned or raised (open or np.load on a missing file)
load(names_file, vecs_file) ==
    IF names_file = <<>>
    THEN [names |-> <<>>, vecs |-> None, outcome |-> "raised"]
    ELSE IF vecs_file = <<>>
    THEN [names |-> names_file[1], vecs |-> None, outcome |-> "raised"]
    ELSE [names |-> names_file[1], vecs |-> vecs_file[1], outcome |-> "returned"]

StoreFrame == UNCHANGED <<canonVars, matchVars, mapVars, parseVars, dbVars,
                          queryVars, concVars, jsonVars, hintVars, syncVars>>

InitStore ==
    /\ IndexIdle
    /\ CanonIdle
    /\ MatchIdle
    /\ MapIdle
    /\ ParseIdle
    /\ ExtIdle

StoreBuild ==
    /\ \E ns \in SeqsUpTo(StoreNames, MaxStoreBuild) : Build(ns)
    /\ UNCHANGED storeVars
    /\ StoreFrame

StoreAddName ==
    /\ Len(names) < MaxStoreNames
    /\ \E n \in StoreNames : AddName(n)
    /\ UNCHANGED storeVars
    /\ StoreFrame

\* EmbedIndex.save(path_base)
StoreSave ==
    /\ fNames' = <<names>>
    /\ fVecs' = save_vecs(fVecs, vecs)
    /\ fSaved' = <<[names |-> names, vecs |-> vecs]>>
    /\ lastOp' = <<"save">>
    /\ UNCHANGED <<names, vecs, prevNames, prevVecs, ldNames, ldVecs, ldOutcome>>
    /\ StoreFrame

\* EmbedIndex().load(path_base)
StoreLoad ==
    /\ ldNames' = load(fNames, fVecs).names
    /\ ldVecs' = load(fNames, fVecs).vecs
    /\ ldOutcome' = load(fNames, fVecs).outcome
    /\ lastOp' = <<"load">>
    /\ UNCHANGED <<names, vecs, prevNames, prevVecs, fNames, fVecs, fSaved>>
    /\ StoreFrame

NextStore == StoreBuild \/ StoreAddName \/ StoreSave \/ StoreLoad

SpecStore == InitStore /\ [][NextStore]_vars

\* C15: once the index has been saved at the path, both artifacts exist and
\* describe the same index (as many names as rows), and load(path) into a
\* fresh index returns and restores exactly the names and the vectors of the
\* index last saved there.
C15_SavedTogether ==
    fSaved # <<>> =>
        /\ fNames # <<>> /\ fVecs # <<>>
        /\ Len(fNames[1]) = Len(fVecs[1])
        /\ lastOp = <<"load">> =>
              /\ ldOutcome = "returned"
              /\ ldNames = fSaved[1].names
              /\ ldVecs = fSaved[1].vecs

\* C16: load raises, leaving the fresh index as it was, when an artifact is
\* missing or when the names artifact and the vectors artifact differ in
\* length; so every index load has returned on has as many names as rows.
C16_LoadValidates ==
    lastOp = <<"load">> =>
        /\ (fNames = <<>> \/ fVecs = <<>> \/ Len(fNames[1]) # Len(fVecs[1])) =>
              (ldOutcome = "raised" /\ ldNames = <<>> /\ ldVecs = None)
        /\ ldOutcome = "returned" => Len(ldNames) = Rows(ldVecs)

(***************************************************************************)
(* src/dedup/embed_index.py: two pipeline runs of one process calling      *)
(* add_name on the same EmbedIndex.  The class holds no lock, so the       *)
(* statements of the two calls interleave: encoding the name (line 62),    *)
(* reading self.vecs (63, 66), storing the new matrix (64, 66) and         *)
(* appending the name (67) are separate steps.                             *)
(***************************************************************************)
\* names the two runs append
ConcNames == { <<"tomato">>, <<"garlic">> }

ConcFrame == UNCHANGED <<canonVars, matchVars, mapVars, parseVars, dbVars,
                         storeVars, queryVars, jsonVars, hintVars, syncVars>>

\* number of names the shared index was built with
BuiltLen == IF lastOp[1] = "build" THEN Len(lastOp[2]) ELSE 0

InitConc ==
    /\ IndexIdle
    /\ CanonIdle
    /\ MatchIdle
    /\ MapIdle
    /\ ParseIdle
    /\ ExtIdle

\* the shared index is built before the runs start
ConcBuild ==
    /\ lastOp = <<"init">>
    /\ \A r \in Runs : tPc[r] = "idle"
    /\ \E ns \in SeqsUpTo(ConcNames, 1) : Build(ns)
    /\ UNCHANGED concVars
    /\ ConcFrame

\* add_name, lines 60-62: the name is non-empty and is encoded
AddEncode(r) ==
    /\ tPc[r] = "idle"
    /\ \E n \in ConcNames :
          /\ tName' = [tName EXCEPT ![r] = <<n>>]
          /\ tNewVec' = [tNewVec EXCEPT ![r] = <<encode_and_normalize(<<n>>)>>]
    /\ tPc' = [tPc EXCEPT ![r] = "encoded"]
    /\ UNCHANGED <<indexVars, tRead, tObs>>
    /\ ConcFrame

\* add_name, lines 63 and 66: self.vecs is read
AddRead(r) ==
    /\ tPc[r] = "encoded"
    /\ tRead' = [tRead EXCEPT ![r] = <<vecs>>]
    /\ tPc' = [tPc EXCEPT ![r] = "read"]
    /\ UNCHANGED <<indexVars, tName, tNewVec, tObs>>
    /\ ConcFrame

\* add_name, lines 64 and 66: the matrix computed from the value read is stored
AddWrite(r) ==
    /\ tPc[r] = "read"
    /\ vecs' = add_name_vecs(tRead[r][1], tNewVec[r][1])
    /\ tPc' = [tPc EXCEPT ![r] = "written"]
    /\ UNCHANGED <<names, lastOp, prevNames, prevVecs, tName, tNewVec, tRead, tObs>>
    /\ ConcFrame

\* add_name, line 67: the name is appended
AddAppend(r) ==
    /\ tPc[r] = "written"
    /\ names' = Append(names, tName[r][1])
    /\ tPc' = [tPc EXCEPT ![r] = "done"]
    /\ UNCHANGED <<vecs, lastOp, prevNames, prevVecs, tName, tNewVec, tRead, tObs>>
    /\ ConcFrame

\* nearest, line 75, called while the runs are adding: what it finds in self.names
\* and self.vecs
ConcNearest ==
    /\ \E r \in Runs : tPc[r] \notin {"idle", "done"}
    /\ tObs' = <<[names |-> Len(names), rows |-> Rows(vecs)]>>
    /\ UNCHANGED <<indexVars, tPc, tName, tNewVec, tRead>>
    /\ ConcFrame

NextConc ==
    \/ ConcBuild
    \/ \E r \in Runs : AddEncode(r)
    \/ \E r \in Runs : AddRead(r)
    \/ \E r \in Runs : AddWrite(r)
    \/ \E r \in Runs : AddAppend(r)
    \/ ConcNearest

SpecConc == InitConc /\ [][NextConc]_vars

\* C17: access of concurrent runs to the shared index is serialized around
\* add_name: under every interleaving of two runs that each call add_name,
\* when both have finished the number of names equals the number of rows, no
\* appended name or vector is lost, and no nearest query finds names and
\* vectors of different lengths.
C17_Serialized ==
    /\ (\A r \in Runs : tPc[r] = "done") =>
          /\ Len(names) = Rows(vecs)
          /\ Len(names) = BuiltLen + 2
          /\ Rows(vecs) = BuiltLen + 2
    /\ (tObs # <<>> => tObs[1].names = tObs[1].rows)

(***************************************************************************)
(* src/ingest/parse_llm_gemini.py: recovery of the JSON payload from the   *)
(* text of a response.  A text is a sequence of lexemes: the code fence,    *)
(* the double quote, the backslash, braces, colon, comma, blanks, newlines *)
(* and words.                                                              *)
(***************************************************************************)
\* the lexeme of three backquotes
Fence == "<fence>"
Quote == "\""
Backslash == "\\"

IsSpace(ch) == ch \in {" ", "\n"}

\* str.lstrip(), str.rstrip(), str.strip()
RECURSIVE str_lstrip(_)
str_lstrip(s) == IF s # <<>> /\ IsSpace(Head(s)) THEN str_lstrip(Tail(s)) ELSE s

RECURSIVE str_rstrip(_)
str_rstrip(s) ==
    IF s # <<>> /\ IsSpace(s[Len(s)]) THEN str_rstrip(SubSeq(s, 1, Len(s) - 1)) ELSE s

str_strip(s) == str_rstrip(str_lstrip(s))

\* str.find(x) and str.rfind(x), 0 standing for -1
Find(s, x) ==
    IF \E i \in 1..Len(s) : s[i] = x
    THEN CHOOSE i \in 1..Len(s) : s[i] = x /\ \A j \in 1..(i - 1) : s[j] # x
    ELSE 0

RFind(s, x) ==
    IF \E i \in 1..Len(s) : s[i] = x
    THEN CHOOSE i \in 1..Len(s) : s[i] = x /\ \A j \in (i + 1)..Len(s) : s[j] # x
    ELSE 0

\* what is left of a word that starts with "json" (any case) after content[4:]
JsonTagRest(lex) ==
    CASE lex \in {"json", "JSON"} -> <<>>
      [] lex = "jsonc" -> <<"c">>
      [] OTHER -> <<lex>>

\* if content.lower().startswith("json"): content = content[4:]
drop_json(content) ==
    IF content = <<>> THEN content ELSE JsonTagRest(Head(content)) \o Tail(content)

\* content up to the last fence
before_closing(content) ==
    IF RFind(content, Fence) # 0
    THEN SubSeq(content, 1, RFind(content, Fence) - 1)
    ELSE content

\* lines 35-43 of _strip_markdown_fence, content being the text after the
\* opening fence
after_fence(raw, content) ==
    IF str_strip(before_closing(str_lstrip(drop_json(str_lstrip(content))))) # <<>>
    THEN str_strip(before_closing(str_lstrip(drop_json(str_lstrip(content)))))
    ELSE raw

\* lines 28-34, stripped being raw.strip()
strip_fence_of(raw, stripped) ==
    IF stripped # <<>> /\ Head(stripped) = Fence
    THEN after_fence(raw, Tail(stripped))
    ELSE IF Find(stripped, Fence) = 0
    THEN raw
    ELSE after_fence(raw, SubSeq(stripped, Find(stripped, Fence) + 1, Len(stripped)))

\* _strip_markdown_fence(raw)
strip_markdown_fence(raw) ==
    IF raw = <<>> THEN raw ELSE strip_fence_of(raw, str_strip(raw))

\* lines 71-72: best = (start, idx + 1) unless the kept best, whose end is one
\* past its last position, spans more than idx - start
Longer(best, start, idx) ==
    IF best = <<>> \/ (idx - start) > (best[2] - best[1])
    THEN <<start, idx + 1>>
    ELSE best

\* the loop of _extract_json_fragment from position idx on: the best
\* (start, end) found, <<>> for None
RECURSIVE ScanFragment(_, _, _, _, _, _, _)
ScanFragment(raw, idx, start, depth, in_string, escape, best) ==
    IF idx > Len(raw) THEN best
    ELSE IF escape
    THEN ScanFragment(raw, idx + 1, start, depth, in_string, FALSE, best)
    ELSE IF raw[idx] = Backslash
    THEN ScanFragment(raw, idx + 1, start, depth, in_string, TRUE, best)
    ELSE IF raw[idx] = Quote
    THEN ScanFragment(raw, idx + 1, start, depth, ~in_string, FALSE, best)
    ELSE IF in_string
    THEN ScanFragment(raw, idx + 1, start, depth, in_string, FALSE, best)
    ELSE IF raw[idx] = "{"
    THEN ScanFragment(raw, idx + 1, IF depth = 0 THEN idx ELSE start, depth + 1,
                      in_string, FALSE, best)
    ELSE IF raw[idx] = "}" /\ depth > 0
    THEN ScanFragment(raw, idx + 1, start, depth - 1, in_string, FALSE,
                      IF depth = 1 /\ start # 0 THEN Longer(best, start, idx) ELSE best)
    ELSE ScanFragment(raw, idx + 1, start, depth, in_string, FALSE, best)

\* raw[best[0] : best[1]]
FragmentAt(raw, best) ==
    IF best = <<>> THEN <<>> ELSE SubSeq(raw, best[1], best[2] - 1)

\* _extract_json_fragment(raw), <<>> for None
extract_json_fragment(raw) ==
    FragmentAt(raw, ScanFragment(raw, 1, 0, 0, FALSE, FALSE, <<>>))

\* json.loads: a recursive-descent reading of strings, numbers and objects;
\* each operator returns the position after what it read, 0 for a syntax error
NumberLex == {"4", "12"}

RECURSIVE SkipWs(_, _)
SkipWs(t, i) == IF i <= Len(t) /\ IsSpace(t[i]) THEN SkipWs(t, i + 1) ELSE i

RECURSIVE ParseString(_, _)
ParseString(t, i) ==
    IF i > Len(t) THEN 0
    ELSE IF t[i] = Quote THEN i + 1
    ELSE IF t[i] = Backslash
    THEN IF i + 1 <= Len(t) /\ t[i + 1] \in {Quote, Backslash}
         THEN ParseString(t, i + 2)
         ELSE 0
    ELSE IF t[i] = "\n" THEN 0
    ELSE ParseString(t, i + 1)

RECURSIVE ParseValue(_, _)
RECURSIVE ParseMembers(_, _, _)
RECURSIVE AfterKey(_, _)
RECURSIVE AfterColon(_, _)
RECURSIVE AfterValue(_, _)
RECURSIVE AfterMember(_, _)

ParseValue(t, i) ==
    IF i > Len(t) THEN 0
    ELSE IF t[i] = Quote THEN ParseString(t, i + 1)
    ELSE IF t[i] = "{" THEN ParseMembers(t, SkipWs(t, i + 1), TRUE)
    ELSE IF t[i] \in NumberLex THEN i + 1
    ELSE 0

ParseMembers(t, i, may_close) ==
    IF i > Len(t) THEN 0
    ELSE IF t[i] = "}" THEN (IF may_close THEN i + 1 ELSE 0)
    ELSE IF t[i] # Quote THEN 0
    ELSE AfterKey(t, ParseString(t, i + 1))

AfterKey(t, j) == IF j = 0 THEN 0 ELSE AfterColon(t, SkipWs(t, j))

AfterColon(t, k) ==
    IF k > Len(t) THEN 0
    ELSE IF t[k] # ":" THEN 0
    ELSE AfterValue(t, ParseValue(t, SkipWs(t, k + 1)))

AfterValue(t, v) == IF v = 0 THEN 0 ELSE AfterMember(t, SkipWs(t, v))

AfterMember(t, w) ==
    IF w > Len(t) THEN 0
    ELSE IF t[w] = "}" THEN w + 1
    ELSE IF t[w] = "," THEN ParseMembers(t, SkipWs(t, w + 1), FALSE)
    ELSE 0

\* the value a well-formed text denotes: the text without the blanks and
\* newlines that stand outside its strings
RECURSIVE ValueOf(_, _, _)
ValueOf(t, i, in_str) ==
    IF i > Len(t) THEN <<>>
    ELSE IF in_str /\ t[i] = Backslash
    THEN <<t[i], t[i + 1]>> \o ValueOf(t, i + 2, TRUE)
    ELSE IF in_str
    THEN <<t[i]>> \o ValueOf(t, i + 1, t[i] # Quote)
    ELSE IF IsSpace(t[i])
    THEN ValueOf(t, i + 1, FALSE)
    ELSE <<t[i]>> \o ValueOf(t, i + 1, t[i] = Quote)

LoadsEnd(t, v) ==
    IF v = 0 THEN <<>>
    ELSE IF SkipWs(t, v) # Len(t) + 1 THEN <<>>
    ELSE <<ValueOf(t, 1, FALSE)>>

\* json.loads(text): <<value>>, or <<>> when it raises
loads(text) == LoadsEnd(text, ParseValue(text, SkipWs(text, 1)))

\* _add(value)
AddCandidate(candidates, value) ==
    IF value = <<>> \/ (\E i \in 1..Len(candidates) : candidates[i] = value)
    THEN candidates
    ELSE Append(candidates, value)

\* a plausible slip: the brace fragment is not added to the candidates
Candidates_no_fragment(raw) ==
    AddCandidate(AddCandidate(<<>>, strip_markdown_fence(raw)), str_strip(raw))

\* the candidates list of _parse_candidate_json
Candidates(raw) ==
    AddCandidate(AddCandidate(AddCandidate(<<>>, strip_markdown_fence(raw)),
                              str_strip(raw)),
                 extract_json_fragment(raw))

\* the loop over the candidates from the k-th on
RECURSIVE FirstParsed(_, _)
FirstParsed(candidates, k) ==
    IF k > Len(candidates) THEN <<>>
    ELSE IF loads(candidates[k]) # <<>> THEN loads(candidates[k])
    ELSE FirstParsed(candidates, k + 1)

\* _parse_candidate_json(raw): <<value>>, or <<>> for None
parse_candidate_json(raw) == FirstParsed(Candidates(raw), 1)

\* JSON objects a response may carry; all but the third have braces inside a
\* quoted string value
JsonObjects ==
    { << "{", Quote, "t", Quote, ":", " ", Quote, "a", " ", "{", "b", "}", " ", "c",
         Quote, "}" >>,
      << "{", Quote, "t", Quote, ":", Quote, "a", " ", "}", " ", "b", Quote, "}" >>,
      << "{", Quote, "t", Quote, ":", Quote, "x", Quote, ",", " ", Quote, "n", Quote,
         ":", "4", "}" >>,
      << "{", Quote, "t", Quote, ":", " ", "{", Quote, "n", Quote, ":", Quote, "{",
         Quote, "}", "}" >>,
      << "{", "\n", " ", Quote, "t", Quote, ":", " ", Quote, "say", " ", Backslash,
         Quote, "}", Backslash, Quote, Quote, "\n", "}" >>,
      << "{", Quote, "t", Quote, ":", Quote, "{", "{", Quote, ",", Quote, "n", Quote,
         ":", "12", "}" >> }

\* language tags after the opening fence
FenceTags == {"json", "JSON", "jsonc", "python"}

Leads == { << "Here", " ", "you", " ", "go", ":", "\n" >>,
           << "The", " ", Quote, "recipe", Quote, ":", " " >>,
           << "Sure", "!", "\n", "\n" >> }

Trails == { << "\n", "Enjoy", "!" >>, << " ", "Hope", " ", "this", " ", "helps", ".", "\n" >> }

Fenced(tag, obj, tail) == <<Fence, tag, "\n">> \o obj \o <<"\n", Fence>> \o tail

\* the three forms of the responses that carry one object
FormsOf(obj) ==
    { [form |-> "fenced", obj |-> obj, text |-> Fenced(tag, obj, tail)] :
          tag \in FenceTags, tail \in {<<>>, <<"\n">>} }
    \cup { [form |-> "bare", obj |-> obj, text |-> pad \o obj \o pad] :
               pad \in {<<>>, <<"\n">>, <<" ">>} }
    \cup { [form |-> "prose", obj |-> obj, text |-> lead \o obj \o trail] :
               lead \in Leads, trail \in Trails }

\* other responses: a fenced object after another object, prose with no
\* object, an object cut short, a fence with nothing in it
OtherResponses ==
    { [form |-> "other", obj |-> <<>>, text |-> t] : t \in
        { << "{", Quote, "a", Quote, ":", "4", "}", " " >>
              \o Fenced("json", << "{", Quote, "b", Quote, ":", "4", "}" >>, <<>>),
          << "Sorry", ",", " ", "no", " ", "recipe", "." >>,
          << "{", Quote, "t", Quote, ":", Quote, "x" >>,
          << Fence, "json", "\n", Fence >>,
          << Fence, "json", "\n", "{", Quote, "t", Quote, ":", "4", "}" >> } }

JsonResponses == (UNION { FormsOf(obj) : obj \in JsonObjects }) \cup OtherResponses

JsonFrame == UNCHANGED <<canonVars, indexVars, matchVars, mapVars, parseVars,
                         dbVars, storeVars, queryVars, concVars, hintVars, syncVars>>

InitJson ==
    /\ IndexIdle
    /\ CanonIdle
    /\ MatchIdle
    /\ MapIdle
    /\ ParseIdle
    /\ ExtIdle

\* data = _parse_candidate_json(raw) for one response
ParseCandidateJson ==
    /\ jPc = "idle"
    /\ \E r \in JsonResponses :
          /\ jIn' = <<r>>
          /\ jOut' = <<[candidates |-> Candidates(r.text),
                        data |-> parse_candidate_json(r.text)]>>
    /\ jPc' = "done"
    /\ JsonFrame

\* every text of at most MaxScanLen lexemes over braces, quote, backslash and
\* a letter
ScanAlphabet == {"{", "}", Quote, Backslash, "a"}

ScanTexts == SeqsUpTo(ScanAlphabet, MaxScanLen)

\* fragment = _extract_json_fragment(raw) for one text
ExtractJsonFragment ==
    /\ jPc = "idle"
    /\ \E t \in ScanTexts :
          /\ jIn' = <<[form |-> "scan", obj |-> <<>>, text |-> t]>>
          /\ jOut' = <<[fragment |-> extract_json_fragment(t)]>>
    /\ jPc' = "scanned"
    /\ JsonFrame

NextJson == ParseCandidateJson \/ ExtractJsonFragment

SpecJson == InitJson /\ [][NextJson]_vars

\* the first of the texts in order that json.loads accepts, <<>> if none
FirstAccepted(order) ==
    IF \E k \in 1..Len(order) : loads(order[k]) # <<>>
    THEN loads(order[CHOOSE k \in 1..Len(order) :
                        /\ loads(order[k]) # <<>>
                        /\ \A j \in 1..(k - 1) : loads(order[j]) = <<>>])
    ELSE <<>>

\* The scanner's reading of a text, stated position by position.  A quote
\* that is not escaped opens or closes a string literal; a backslash escapes
\* the lexeme after it, inside literals only or anywhere.
RECURSIVE LiteralBefore(_, _, _)
RECURSIVE EscapedAt(_, _, _)

\* is position i escaped by a backslash at i - 1
EscapedAt(raw, i, anywhere) ==
    /\ i > 1
    /\ raw[i - 1] = Backslash
    /\ ~EscapedAt(raw, i - 1, anywhere)
    /\ (anywhere \/ LiteralBefore(raw, i - 1, anywhere))

\* is position i inside a string literal opened before it
LiteralBefore(raw, i, anywhere) ==
    IF i = 1 THEN FALSE
    ELSE IF raw[i - 1] = Quote /\ ~EscapedAt(raw, i - 1, anywhere)
    THEN ~LiteralBefore(raw, i - 1, anywhere)
    ELSE LiteralBefore(raw, i - 1, anywhere)

\* a brace that counts: outside the literals and not escaped
CountedBrace(raw, i, anywhere) ==
    /\ raw[i] \in {"{", "}"}
    /\ ~LiteralBefore(raw, i, anywhere)
    /\ ~EscapedAt(raw, i, anywhere)

\* nesting depth in front of position i; a closing brace at depth zero is ignored
RECURSIVE DepthBefore(_, _, _)
DepthBefore(raw, i, anywhere) ==
    IF i = 1 THEN 0
    ELSE IF ~CountedBrace(raw, i - 1, anywhere) THEN DepthBefore(raw, i - 1, anywhere)
    ELSE IF raw[i - 1] = "{" THEN DepthBefore(raw, i - 1, anywhere) + 1
    ELSE IF DepthBefore(raw, i - 1, anywhere) = 0 THEN 0
    ELSE DepthBefore(raw, i - 1, anywhere) - 1

\* raw[a..b] starts at a '{' at depth zero and ends at its matching '}'
TopLevelObject(raw, a, b, anywhere) ==
    /\ a < b
    /\ CountedBrace(raw, a, anywhere) /\ raw[a] = "{"
    /\ CountedBrace(raw, b, anywhere) /\ raw[b] = "}"
    /\ DepthBefore(raw, a, anywhere) = 0
    /\ DepthBefore(raw, b, anywhere) = 1
    /\ \A k \in (a + 1)..b : DepthBefore(raw, k, anywhere) >= 1

\* frag is a longest top-level object of raw, or nothing when raw has none
IsLongestObject(raw, frag, anywhere) ==
    IF \E a, b \in 1..Len(raw) : TopLevelObject(raw, a, b, anywhere)
    THEN \E a, b \in 1..Len(raw) :
            /\ TopLevelObject(raw, a, b, anywhere)
            /\ frag = SubSeq(raw, a, b)
            /\ \A c, d \in 1..Len(raw) :
                   TopLevelObject(raw, c, d, anywhere) => d - c <= b - a
    ELSE frag = <<>>

\* C24: the brace scanner returns the longest substring from a '{' at depth
\* zero to its matching '}', not counting the braces inside double-quoted
\* literals (a backslash-escaped quote does not end a literal), and nothing
\* when there is no balanced top-level object.  The backslash is read as the
\* scanner reads it, escaping the next lexeme wherever it stands.
C24_LongestObject ==
    jPc = "scanned" => IsLongestObject(jIn[1].text, jOut[1].fragment, TRUE)

\* C18: the fenced form with a language tag, the bare form and the form with
\* prose around an object that has braces inside a quoted string value all
\* recover the object itself; the candidates are tried in the order
\* fence-stripped text, raw text, brace fragment, and the first that parses
\* is the one returned.
C18_SameObject ==
    jPc = "done" =>
        /\ (jIn[1].form \in {"fenced", "bare", "prose"} =>
                /\ loads(jIn[1].obj) # <<>>
                /\ jOut[1].data = loads(jIn[1].obj))
        /\ jOut[1].data = FirstAccepted(<< strip_markdown_fence(jIn[1].text),
                                           jIn[1].text,
                                           extract_json_fragment(jIn[1].text) >>)

\* C18 witness: prose surrounds an object with an unmatched brace inside a
\* string value; the fence-stripped and raw texts do not parse and the brace
\* fragment gives the object
C18_Witness ==
    /\ jPc = "done"
    /\ jIn[1].form = "prose"
    /\ jIn[1].obj = << "{", Quote, "t", Quote, ":", Quote, "a", " ", "}", " ", "b",
                       Quote, "}" >>
    /\ Len(jOut[1].candidates) = 3
    /\ loads(jOut[1].candidates[1]) = <<>>
    /\ loads(jOut[1].candidates[2]) = <<>>
    /\ jOut[1].candidates[3] = jIn[1].obj
    /\ jOut[1].data = <<jIn[1].obj>>


(***************************************************************************)
(* Structured-hint extraction: the JSON-LD blocks of a page.               *)
(* A page is the sequence of its ld+json script blocks.  A block's body is *)
(* plain JSON ("json"), one object with text around it ("wrapped"), one    *)
(* object inside an HTML comment ("commented") or no JSON ("broken");      *)
(* value is what the body holds and array tells a JSON array from a single *)
(* object.  An object has its @type (a string or a list of strings), the   *)
(* recipeYield key or not, its @graph list and its object-valued           *)
(* properties in key order.                                                *)
(***************************************************************************)
MaxBlocks == 2

NoType == [list |-> FALSE, tags |-> <<>>]
StrType(t) == [list |-> FALSE, tags |-> <<t>>]
ListType(ts) == [list |-> TRUE, tags |-> ts]

Leaf(id, type, yield) ==
    [id |-> id, type |-> type, yield |-> yield, graph |-> <<>>, props |-> <<>>]

RecipeObj == Leaf("recipe", StrType("Recipe"), TRUE)
RecipeListObj == Leaf("recipe_list", ListType(<<"Thing", "Recipe">>), FALSE)
ProductObj == Leaf("product", StrType("Product"), FALSE)
YieldOnlyObj == Leaf("yield_only", StrType("Product"), TRUE)
GraphObj ==
    [id |-> "graph", type |-> NoType, yield |-> FALSE,
     graph |-> <<ProductObj, RecipeObj>>, props |-> <<>>]
WebPageObj ==
    [id |-> "webpage", type |-> StrType("WebPage"), yield |-> FALSE,
     graph |-> <<>>, props |-> <<ProductObj, RecipeListObj>>]

LdObjects ==
    {RecipeObj, RecipeListObj, ProductObj, YieldOnlyObj, GraphObj, WebPageObj}

LdBlocks ==
    {[kind |-> k, array |-> FALSE, value |-> <<o>>] :
        k \in {"json", "wrapped", "commented", "broken"}, o \in LdObjects}
    \cup {[kind |-> "json", array |-> TRUE, value |-> <<ProductObj, o>>] :
            o \in {RecipeObj, WebPageObj}}

LdPages == UNION {[1..n -> LdBlocks] : n \in 1..MaxBlocks}

\* str.lower on a type tag
LowerTag(t) ==
    CASE t = "Recipe" -> "recipe"
      [] t = "Product" -> "product"
      [] t = "WebPage" -> "webpage"
      [] t = "Thing" -> "thing"
      [] OTHER -> t

\* parse_llm_gemini: json.loads, else the slice from the first '{' to the
\* last '}'; a list extends the blocks, anything else is appended
LlmBlockObjects(b) ==
    IF b.kind = "json" THEN b.value
    ELSE IF b.kind \in {"wrapped", "commented"} THEN b.value
    ELSE <<>>

RECURSIVE extract_json_ld_blocks(_)
extract_json_ld_blocks(page) ==
    IF page = <<>> THEN <<>>
    ELSE LlmBlockObjects(Head(page)) \o extract_json_ld_blocks(Tail(page))

LlmIsRecipe(t) ==
    IF t.list THEN \E i \in 1..Len(t.tags) : t.tags[i] = "Recipe"
    ELSE t.tags # <<>> /\ LowerTag(t.tags[1]) = "recipe"

RECURSIVE FirstRecipeProp(_)
FirstRecipeProp(props) ==
    IF props = <<>> THEN <<>>
    ELSE IF LlmIsRecipe(Head(props).type) THEN <<Head(props)>>
    ELSE FirstRecipeProp(Tail(props))

RECURSIVE find_recipe_object(_)
find_recipe_object(blocks) ==
    IF blocks = <<>> THEN <<>>
    ELSE IF LlmIsRecipe(Head(blocks).type) THEN <<Head(blocks)>>
    ELSE IF FirstRecipeProp(Head(blocks).props) # <<>>
         THEN FirstRecipeProp(Head(blocks).props)
    ELSE find_recipe_object(Tail(blocks))

\* run.py: json.loads, else the body with a leading "<!--" and a trailing
\* "-->" removed
RunBlockObjects(b) ==
    IF b.kind \in {"json", "commented"} THEN b.value ELSE <<>>

RunIsRecipe(o) == o.type = StrType("Recipe") \/ o.yield

RECURSIVE FirstGraphRecipe(_)
FirstGraphRecipe(graph) ==
    IF graph = <<>> THEN <<>>
    ELSE IF RunIsRecipe(Head(graph)) THEN <<Head(graph)>>
    ELSE FirstGraphRecipe(Tail(graph))

RECURSIVE RunCandidates(_)
RunCandidates(cands) ==
    IF cands = <<>> THEN <<>>
    ELSE IF FirstGraphRecipe(Head(cands).graph) # <<>>
         THEN FirstGraphRecipe(Head(cands).graph)
    ELSE IF RunIsRecipe(Head(cands)) \/ Head(cands).type = ListType(<<"Recipe">>)
         THEN <<Head(cands)>>
    ELSE RunCandidates(Tail(cands))

RECURSIVE find_jsonld_recipe(_)
find_jsonld_recipe(page) ==
    IF page = <<>> THEN <<>>
    ELSE IF RunCandidates(RunBlockObjects(Head(page))) # <<>>
         THEN RunCandidates(RunBlockObjects(Head(page)))
    ELSE find_jsonld_recipe(Tail(page))

HintFrame ==
    UNCHANGED <<canonVars, indexVars, matchVars, mapVars, parseVars,
                dbVars, storeVars, queryVars, concVars, jsonVars, syncVars>>

InitHint ==
    /\ CanonIdle
    /\ IndexIdle
    /\ MatchIdle
    /\ MapIdle
    /\ ParseIdle
    /\ ExtIdle

\* both extractors run on one page
ExtractHint ==
    /\ hPc = "idle"
    /\ \E page \in LdPages :
          /\ hIn' = <<page>>
          /\ hOut' = <<[llm |-> find_recipe_object(extract_json_ld_blocks(page)),
                        run |-> find_jsonld_recipe(page)]>>
    /\ hPc' = "done"
    /\ HintFrame

\* the hint durations a card may carry
Durations ==
    {Iso(h, m, sec) : h \in 0..1, m \in {0, 10}, sec \in {0, 29, 30, 59}}
    \cup {HoursWords(2), MinutesWords(20), BareNumber(15), NoDigits}

\* both duration normalizers run on one hint value
NormalizeDuration ==
    /\ hPc = "idle"
    /\ \E d \in Durations :
          /\ hIn' = <<d>>
          /\ hOut' = <<[llm |-> parse_iso8601_minutes(d),
                        run |-> parse_iso_duration_to_minutes(d)]>>
    /\ hPc' = "normalized"
    /\ HintFrame

\* the next request: the extractors keep nothing between pages
HintReset ==
    /\ hPc \in {"done", "normalized"}
    /\ hPc' = "idle"
    /\ hIn' = <<>>
    /\ hOut' = <<>>
    /\ HintFrame

NextHint == ExtractHint \/ NormalizeDuration \/ HintReset

SpecHint == InitHint /\ [][NextHint]_vars

\* the candidates of a page: blocks that parse directly or after the
\* first-'{'-to-last-'}' repair, arrays and @graph lists flattened one level
Flattened(o) == IF o.graph # <<>> THEN o.graph ELSE <<o>>

RECURSIVE FlattenAll(_)
FlattenAll(objs) ==
    IF objs = <<>> THEN <<>>
    ELSE Flattened(Head(objs)) \o FlattenAll(Tail(objs))

HasRecipeTag(o) == \E i \in 1..Len(o.type.tags) : o.type.tags[i] = "Recipe"

RECURSIVE FirstTagged(_)
FirstTagged(objs) ==
    IF objs = <<>> THEN <<>>
    ELSE IF HasRecipeTag(Head(objs)) THEN <<Head(objs)>>
    ELSE FirstTagged(Tail(objs))

RECURSIVE AllProps(_)
AllProps(objs) ==
    IF objs = <<>> THEN <<>>
    ELSE Head(objs).props \o AllProps(Tail(objs))

HintOf(cands) ==
    IF FirstTagged(cands) # <<>> THEN FirstTagged(cands)
    ELSE FirstTagged(AllProps(cands))

ExpectedHint(page) == HintOf(FlattenAll(extract_json_ld_blocks(page)))

\* C25: each structured-hint extractor returns, for every page, the first
\* candidate tagged Recipe after flattening arrays and @graph lists one level,
\* else the first Recipe-tagged object-valued property, else nothing; a block
\* that stays unparseable after the repair changes nothing for the others.
C25_FirstRecipeCandidate ==
    hPc = "done" =>
        /\ hOut[1].llm = ExpectedHint(hIn[1])
        /\ hOut[1].run = ExpectedHint(hIn[1])

\* the minutes of a hint duration: whole minutes of "PT#H#M#S" with seconds
\* rounded at 30, else the hours or minutes phrasing, else the first integer
NormalizedMinutes(d) ==
    CASE d.kind = "iso" ->
            Some((d.h * 60 + d.m + (IF d.s >= 30 THEN 1 ELSE 0)) * MinuteScale)
      [] d.kind = "hours_words" -> Some(d.h * 60 * MinuteScale)
      [] d.kind = "minutes_words" -> Some(d.m * MinuteScale)
      [] d.kind = "number" -> Some(d.m * MinuteScale)
      [] OTHER -> Absent

\* C26: every duration normalizer of the pipeline gives hours*60 + minutes,
\* plus 1 when seconds >= 30, for a "PT#H#M#S" value, and otherwise falls
\* back to the hours/minutes phrasing, then the first integer, then absent.
C26_WholeMinutesEverywhere ==
    hPc = "normalized" =>
        /\ hOut[1].llm = NormalizedMinutes(hIn[1])
        /\ hOut[1].run = NormalizedMinutes(hIn[1])

(***************************************************************************)
(* Claims about the two passes of map_and_upsert (SpecMap).                *)
(***************************************************************************)
MentionKeys == {MentionKey(i) : i \in 1..Len(mapIn.ingredients)}

\* the mentions 1..n whose key is key, in document order
RECURSIVE MentionsUpTo(_, _)
MentionsUpTo(key, n) ==
    IF n = 0 THEN <<>>
    ELSE IF MentionKey(n) = key
    THEN Append(MentionsUpTo(key, n - 1), mapIn.ingredients[n])
    ELSE MentionsUpTo(key, n - 1)

FirstMention(key) ==
    CHOOSE i \in MentionsOf(key) : \A k \in MentionsOf(key) : i <= k

\* C27: map_and_upsert loses and duplicates no mention: the mentions kept
\* under a key are exactly the mentions with that key, each distinct key gives
\* one upsert_ingredient call and one summary entry, the entries are in the
\* order of their keys' first mention, and a mention whose matcher call raised
\* is kept under its input name with score 0.0.
C27_NoMentionLostOrDuplicated ==
    mapPc = "done" =>
        /\ Len(mapOut.ingredients) = Cardinality(MentionKeys)
        /\ Len(mapOut.upserts) = Cardinality(MentionKeys)
        /\ \A j \in 1..Len(mapOut.ingredients) :
              /\ mapOut.ingredients[j].name \in MentionKeys
              /\ mapOut.upserts[j].name = mapOut.ingredients[j].name
              /\ mapOut.assigned[j] =
                    MentionsUpTo(mapOut.ingredients[j].name, Len(mapIn.ingredients))
        /\ \A j, k \in 1..Len(mapOut.ingredients) :
              j < k => FirstMention(mapOut.ingredients[j].name)
                          < FirstMention(mapOut.ingredients[k].name)
        /\ \A i \in 1..Len(mapIn.ingredients) :
              mapIn.raises[i] =>
                 \E j \in 1..Len(mapOut.ingredients) :
                    /\ mapOut.ingredients[j].name = MatchInputOf(mapIn.ingredients[i])
                    /\ \E k \in 1..Len(mapOut.assigned[j]) :
                          mapOut.assigned[j][k] = mapIn.ingredients[i]
                    /\ Len(mapOut.assigned[j]) = 1 => mapOut.ingredients[j].score = 0

\* C27 witness: "garlic", whose matcher call raises, then "garlic" again,
\* matched by the index: both have the key "garlic" and give one entry and
\* one upsert call
C27_Witness ==
    /\ mapPc = "done"
    /\ Len(mapIn.ingredients) = 2
    /\ mapIn.raises = <<TRUE, FALSE>>
    /\ mapIn.ingredients[1].name = <<"garlic">>
    /\ mapIn.ingredients[2].name = <<"garlic">>
    /\ Len(mapOut.ingredients) = 1
    /\ Len(mapOut.upserts) = 1
    /\ mapOut.assigned[1] = mapIn.ingredients

\* the units of a sequence of mentions that are not empty, in order
RECURSIVE NonEmptyUnits(_)
NonEmptyUnits(ms) ==
    IF ms = <<>> THEN <<>>
    ELSE IF Head(ms).unit # None /\ Head(ms).unit # ""
    THEN <<Head(ms).unit>> \o NonEmptyUnits(Tail(ms))
    ELSE NonEmptyUnits(Tail(ms))

\* C28: the merged quantity of a summary entry is the sum of the numeric
\* quantities of all mentions with its key, whatever their units, and absent
\* exactly when none of them has a numeric quantity; the merged unit is the
\* first non-empty unit among them in document order.
C28_MergedQuantityAndUnit ==
    mapPc = "done" =>
        \A j \in 1..Len(mapOut.ingredients) :
            /\ mapOut.ingredients[j].quantity =
                  IF \A a \in MentionsOf(mapOut.ingredients[j].name) :
                        mapIn.ingredients[a].quantity = Absent
                  THEN Absent
                  ELSE Some(SumQuantities(MentionsOf(mapOut.ingredients[j].name)))
            /\ IF NonEmptyUnits(mapOut.assigned[j]) = <<>>
               THEN mapOut.ingredients[j].unit \in {None, ""}
               ELSE mapOut.ingredients[j].unit = NonEmptyUnits(mapOut.assigned[j])[1]

\* C28 witness: "garlic" 1 clove, then "garlic" 2 tsp: the units disagree and
\* the one entry has quantity 3 and the first unit, clove
C28_Witness ==
    /\ mapPc = "done"
    /\ Len(mapIn.ingredients) = 2
    /\ mapIn.ingredients[1].name = <<"garlic">>
    /\ mapIn.ingredients[2].name = <<"garlic">>
    /\ mapIn.ingredients[1].quantity = Some(1)
    /\ mapIn.ingredients[2].quantity = Some(2)
    /\ mapIn.ingredients[1].unit = "clove"
    /\ mapIn.ingredients[2].unit = "tsp"
    /\ Len(mapOut.ingredients) = 1
    /\ mapOut.ingredients[1].quantity = Some(3)
    /\ mapOut.ingredients[1].unit = "clove"

(***************************************************************************)
(* The range of match_or_create (SpecMatch).                               *)
(***************************************************************************)
\* C29: a result of match_or_create has status existing or new; an existing
\* result names a member of existing_names or the non-empty name the index
\* returned; a new result names canonicalize(input), and the index returned
\* no name with a score at or above the threshold.
C29_ResultRange ==
    mPc = "done" =>
        /\ mResult.status \in {"existing", "new"}
        /\ mResult.status = "existing" =>
              \/ mResult.name \in mArgs.existing
              \/ /\ mResult.name # <<>>
                 /\ mResult.queries # <<>>
                 /\ mResult.name = MatchReported.name
        /\ mResult.status = "new" =>
              /\ mResult.name = canonicalize(mArgs.name)
              /\ ~(MatchReported.name # <<>> /\ MatchReported.score >= mArgs.threshold)

\* C29 witness: "unicorn dust" against an index holding "tomato": the index
\* names "tomato" with a score under the default threshold and the result is
\* new, named "unicorn dust"
C29_Witness ==
    /\ mPc = "done"
    /\ mArgs.name = <<"unicorn", " ", "dust">>
    /\ mArgs.threshold = DefaultThreshold
    /\ names = << <<"tomato">> >>
    /\ MatchReported.name = <<"tomato">>
    /\ MatchReported.score < DefaultThreshold
    /\ mResult.status = "new"
    /\ mResult.name = <<"unicorn", " ", "dust">>

(***************************************************************************)
(* src/main.py: sync_push and sync_pull.  sync_push writes on its own      *)
(* connection and commits at the end; a recipe create with ingredients     *)
(* goes through upsert_parsed_recipe, which opens, writes and commits a    *)
(* second connection.  sqlite allows one writer: once sync_push has an     *)
(* uncommitted write, the second connection's INSERT fails with "database  *)
(* is locked" after the busy timeout, the exception leaves sync_push and   *)
(* its uncommitted writes are rolled back.                                 *)
(***************************************************************************)
MaxPushes == 2

\* a recipe payload without ingredients
MinimalPayload == [title |-> <<"Quick">>, servings |-> Absent, ingredients |-> <<>>]

FullPayload ==
    [title |-> <<"Original">>, servings |-> Some(2), ingredients |-> <<SaltItem>>]

\* the operations of an outbox
OutboxOps ==
    { [op |-> "create", entity |-> "recipe", entity_id |-> 0, payload |-> FullPayload],
      [op |-> "create", entity |-> "recipe", entity_id |-> 0, payload |-> MinimalPayload],
      [op |-> "update", entity |-> "recipe", entity_id |-> 1, payload |-> MinimalPayload] }

Outboxes == SeqsUpTo(OutboxOps, 2)

DbNow ==
    [recipes |-> recipes, changes_log |-> changes_log,
     recipe_ingredients |-> recipe_ingredients, ingredients |-> ingredients]

\* the tables after a call of upsert_parsed_recipe
DbAfter(out) ==
    [recipes |-> out.recipes, changes_log |-> out.tables.changes_log,
     recipe_ingredients |-> out.tables.recipe_ingredients,
     ingredients |-> out.tables.ingredients]

\* sync_push before its loop: committed is what the database holds, db is
\* what sync_push's connection sees, dirty tells whether it has written
PushStart(db) ==
    [committed |-> db, db |-> db, dirty |-> FALSE, raised |-> FALSE,
     server_version |-> Absent, calls |-> <<>>]

\* created_id = upsert_parsed_recipe(op.payload, uid, source_url=None)
PushUpsert(st, op, uid) ==
    IF st.dirty
    THEN [st EXCEPT !.raised = TRUE, !.db = st.committed]
    ELSE [st EXCEPT
            !.committed = DbAfter(upsert_parsed_recipe(st.db, op.payload, uid, NoText)),
            !.db = DbAfter(upsert_parsed_recipe(st.db, op.payload, uid, NoText)),
            !.server_version =
                Some(upsert_parsed_recipe(st.db, op.payload, uid, NoText).returned),
            !.calls = Append(@, [parsed |-> op.payload, user_id |-> uid,
                                 source_url |-> NoText,
                                 returned |-> upsert_parsed_recipe(
                                                 st.db, op.payload, uid, NoText).returned])]

\* the minimal recipe row and its log row, written on sync_push's connection
PushMinimal(st, op, uid) ==
    [st EXCEPT
        !.db.recipes = Append(@, RecipeRow(Len(st.db.recipes) + 1, op.payload, uid, NoText)),
        !.db.changes_log = Append(@, RecipeLogRow(Len(st.db.changes_log) + 1,
                                                  Len(st.db.recipes) + 1, uid)),
        !.dirty = TRUE,
        !.server_version = Some(Len(st.db.recipes) + 1)]

\* the generic append to the change log; server_version = cur.lastrowid
PushGeneric(st, op, uid) ==
    [st EXCEPT
        !.db.changes_log = Append(@, [id |-> Len(st.db.changes_log) + 1, user_id |-> uid,
                                      entity |-> op.entity, entity_id |-> op.entity_id,
                                      op |-> op.op, version |-> 1]),
        !.dirty = TRUE,
        !.server_version = Some(Len(st.db.changes_log) + 1)]

\* the body of the loop over req.outbox
PushOp(st, op, uid) ==
    IF st.raised THEN st
    ELSE IF op.entity = "recipe" /\ op.op = "create"
    THEN IF op.payload.ingredients # <<>>
         THEN PushUpsert(st, op, uid)
         ELSE PushMinimal(st, op, uid)
    ELSE PushGeneric(st, op, uid)

RECURSIVE PushLoop(_, _, _)
PushLoop(st, outbox, uid) ==
    IF outbox = <<>> THEN st
    ELSE PushLoop(PushOp(st, Head(outbox), uid), Tail(outbox), uid)

\* sync_push(req, user): the tables afterwards, the server_version returned
\* (absent for an empty outbox) or the exception, and the calls made to
\* upsert_parsed_recipe
sync_push(db, outbox, uid) == PushLoop(PushStart(db), outbox, uid)

\* SELECT id ... FROM changes_log WHERE user_id = ? AND id > ? ORDER BY id ASC
RECURSIVE ChangesSince(_, _, _)
ChangesSince(log, uid, since) ==
    IF log = <<>> THEN <<>>
    ELSE IF Head(log).user_id = uid /\ Head(log).id > since
    THEN <<Head(log).id>> \o ChangesSince(Tail(log), uid, since)
    ELSE ChangesSince(Tail(log), uid, since)

\* sync_pull(since, user): the ids of the changes returned and server_version
sync_pull(log, uid, since) ==
    [changes |-> ChangesSince(log, uid, since),
     server_version |->
        IF ChangesSince(log, uid, since) # <<>>
        THEN ChangesSince(log, uid, since)[Len(ChangesSince(log, uid, since))]
        ELSE since]

SyncFrame ==
    UNCHANGED <<canonVars, indexVars, matchVars, mapVars, parseVars, storeVars,
                queryVars, concVars, jsonVars, hintVars>>

PushCount == IF pushed = <<>> THEN 0 ELSE pushed[1].n

\* one request to /sync/push; log_end is the last change id in the log when
\* the request ends
SyncPush ==
    /\ PushCount < MaxPushes
    /\ \E uid \in Users, outbox \in Outboxes :
         \E out \in {sync_push(DbNow, outbox, uid)} :
            /\ recipes' = out.db.recipes
            /\ changes_log' = out.db.changes_log
            /\ recipe_ingredients' = out.db.recipe_ingredients
            /\ ingredients' = out.db.ingredients
            /\ dbCalls' = dbCalls \o out.calls
            /\ pushed' = <<[n |-> PushCount + 1, user |-> uid, raised |-> out.raised,
                            server_version |-> out.server_version,
                            log_end |-> Len(out.db.changes_log)]>>
    /\ UNCHANGED pulled
    /\ SyncFrame

\* the since values a client sends: 0, the server_version of the latest push
\* of the same user, or the server_version of the pull before
PullSinces(uid) ==
    {[from |-> "zero", since |-> 0]}
    \cup (IF pushed # <<>> /\ pushed[1].user = uid /\ ~pushed[1].raised
             /\ pushed[1].server_version # Absent
          THEN {[from |-> "push", since |-> Val(pushed[1].server_version)]}
          ELSE {})
    \cup (IF pulled # <<>> /\ pulled[1].user = uid
          THEN {[from |-> "pull", since |-> pulled[1].server_version]}
          ELSE {})

\* one request to /sync/pull.  Beside the answer, the client's side of the
\* exchange is kept: where its chain of pulls started, the ids received in
\* the chain, and whether one of them came twice
SyncPull ==
    /\ \E uid \in Users :
         \E c \in PullSinces(uid) :
            \E out \in {sync_pull(changes_log, uid, c.since)} :
               pulled' = <<[user |-> uid, from |-> c.from, since |-> c.since,
                            changes |-> out.changes,
                            server_version |-> out.server_version,
                            log_end |-> Len(changes_log),
                            push_end |-> IF c.from = "push" THEN pushed[1].log_end ELSE 0,
                            start |-> IF c.from = "pull" THEN pulled[1].start ELSE c.since,
                            seen |-> IF c.from = "pull"
                                     THEN pulled[1].seen \cup Range(out.changes)
                                     ELSE Range(out.changes),
                            twice |-> IF c.from = "pull"
                                      THEN pulled[1].twice
                                           \/ pulled[1].seen \cap Range(out.changes) # {}
                                      ELSE FALSE]>>
    /\ UNCHANGED <<dbVars, pushed>>
    /\ SyncFrame

NextSync == SyncPush \/ SyncPull

SpecSync == InitDb /\ [][NextSync]_vars

\* the ids of the changes of a user in the log positions from + 1 .. to
ChangeIds(uid, from, to) ==
    {i \in (from + 1)..to : changes_log[i].user_id = uid}

\* C30: the server_version of sync_push and of sync_pull are positions in the
\* same changes_log id sequence: a pull from the server_version of the
\* user's latest push returns exactly the changes written after that push,
\* and a chain of pulls, each from the server_version of the one before,
\* returns every change after its start once.
C30_OneCursor ==
    pulled # <<>> =>
        /\ pulled[1].from = "push" =>
              Range(pulled[1].changes)
                 = ChangeIds(pulled[1].user, pulled[1].push_end, pulled[1].log_end)
        /\ pulled[1].from = "pull" =>
              /\ ~pulled[1].twice
              /\ pulled[1].seen
                    = ChangeIds(pulled[1].user, pulled[1].start, pulled[1].log_end)

=============================================================================
